---------------------------- MODULE Spec2Model ----------------------------
(***************************************************************************)
(* A model of BetterPushbackC's path synthesizer (compute_segs), path      *)
(* follower (drive_segs and its helpers, src/src/driving.c) and of the     *)
(* plugin's segment-list handling (src/unnamed/part_000).                  *)
(*                                                                         *)
(* The C code computes in doubles.  The model computes in fixed point:     *)
(*   - a heading or angle is an integer number of tenths of a degree       *)
(*     (Deg units per degree);                                             *)
(*   - a position or length is an integer number of centimetres            *)
(*     (Metre units per metre);                                            *)
(*   - a component of a unit direction vector, a sine or a tangent, is an  *)
(*     integer number of thousandths (One units per 1.0);                  *)
(*   - a speed is in centimetres per second, a time in milliseconds.       *)
(* NaN, which the C code produces for the heading of a zero vector, is a   *)
(* value of its own; every comparison with it is false, as in IEEE 754.    *)
(***************************************************************************)
EXTENDS Integers, Naturals, Sequences, FiniteSets, TLC

---------------------------------------------------------------------------
(* Fixed-point arithmetic.                                                 *)

\* sin(d degrees) * 1000 for d = 0..90.
SinTab ==
  << 0, 17, 35, 52, 70, 87, 105, 122, 139, 156, 174, 191, 208, 225, 242,
     259, 276, 292, 309, 326, 342, 358, 375, 391, 407, 423, 438, 454, 469,
     485, 500, 515, 530, 545, 559, 574, 588, 602, 616, 629, 643, 656, 669,
     682, 695, 707, 719, 731, 743, 755, 766, 777, 788, 799, 809, 819, 829,
     839, 848, 857, 866, 875, 883, 891, 899, 906, 914, 921, 927, 934, 940,
     946, 951, 956, 961, 966, 970, 974, 978, 982, 985, 988, 990, 993, 995,
     996, 998, 999, 999, 1000, 1000 >>

\* 1.0 as a fixed-point fraction: the table's value for sin(90 degrees).
One == SinTab[91]

\* Heading units per degree.
Deg == 10

\* Length units per metre.
Metre == 100

\* The double NaN.
NaN == -1000000000

\* +infinity, for a tangent of 90 degrees.
Inf == 1000000000

Abs(x) == IF x < 0 THEN -x ELSE x

Sgn(x) == IF x < 0 THEN -1 ELSE IF x > 0 THEN 1 ELSE 0

\* a / b rounded to the nearest integer, halves away from zero.
RDiv(a, b) == Sgn(a) * Sgn(b) * ((2 * Abs(a) + Abs(b)) \div (2 * Abs(b)))

\* a * b / c rounded, without forming a * b when it would overflow 32 bits.
MulDiv(a, b, c) ==
  LET q == Abs(a) \div Abs(c)
      r == Abs(a) % Abs(c)
  IN  Sgn(a) * Sgn(b) * Sgn(c) * (q * Abs(b) + RDiv(r * Abs(b), Abs(c)))

RECURSIVE SqrtIter(_, _, _)
RECURSIVE SqrtStep(_, _, _, _)
\* The largest s in lo..hi with s * s <= n, by bisection.
SqrtIter(n, lo, hi) ==
  IF lo >= hi THEN lo ELSE SqrtStep(n, lo, hi, (lo + hi + 1) \div 2)

SqrtStep(n, lo, hi, mid) ==
  IF mid * mid <= n THEN SqrtIter(n, mid, hi) ELSE SqrtIter(n, lo, mid - 1)

\* floor(sqrt(n)), 0 <= n < 2^31.
Isqrt(n) == SqrtIter(n, 0, 46340)

\* `s' = floor(sqrt(n)) rounded up when n is nearer to (s + 1)^2.
SqrtRound(n, s) == IF n - s * s > s THEN s + 1 ELSE s

\* sqrt(n) rounded to the nearest integer.
Sqrt(n) == SqrtRound(n, Isqrt(n))

\* The C macros ((x) < (y) ? (x) : (y)) and ((x) > (y) ? (x) : (y)): a
\* comparison with NaN is false, so the second operand is the result.
MIN(x, y) == IF x # NaN /\ y # NaN /\ x < y THEN x ELSE y

MAX(x, y) == IF x # NaN /\ y # NaN /\ x > y THEN x ELSE y

\* sin of a heading in [0, 90 degrees], interpolated between whole degrees.
SinQ(h) ==
  LET d == h \div Deg
      f == h % Deg
  IN  IF f = 0 THEN SinTab[d + 1]
      ELSE SinTab[d + 1] + RDiv((SinTab[d + 2] - SinTab[d + 1]) * f, Deg)

\* SinQ tabulated for every heading of [0, 90 degrees]: entry h + 1.
SinTenth == << >> \o [i \in 1..(90 * Deg + 1) |-> SinQ(i - 1)]

\* sin of a heading in [0, 360 degrees).
SinN(a) ==
  IF a <= 90 * Deg THEN SinTenth[a + 1]
  ELSE IF a <= 180 * Deg THEN SinTenth[180 * Deg - a + 1]
  ELSE IF a <= 270 * Deg THEN -SinTenth[a - 180 * Deg + 1]
  ELSE -SinTenth[360 * Deg - a + 1]

\* sin and cos of any heading (tenths of a degree), times One.
Sin(h) == SinN(h % (360 * Deg))

Cos(h) == Sin(h + 90 * Deg)

\* tan(DEG2RAD(h)) times One; Inf at 90 degrees.
Tan(h) ==
  IF Cos(h) = 0 THEN (IF Sin(h) > 0 THEN Inf ELSE -Inf)
  ELSE RDiv(Sin(h) * One, Cos(h))

---------------------------------------------------------------------------
(* The 2-D geometry helpers of geom.h (vect2_t, headings).  A vector is a   *)
(* record [x, y]: x grows to the east, y to the north; heading 0 points    *)
(* along +y and headings grow clockwise.                                   *)

VECT2(x, y) == [x |-> x, y |-> y]

ZERO_VECT2 == VECT2(0, 0)

\* The "undefined" vector: both components NaN.
NULL_VECT2 == VECT2(NaN, NaN)

IS_NULL_VECT(a) == a.x = NaN \/ a.y = NaN

VECT2_EQ(a, b) == a.x = b.x /\ a.y = b.y

vect2_add(a, b) == VECT2(a.x + b.x, a.y + b.y)

vect2_sub(a, b) == VECT2(a.x - b.x, a.y - b.y)

vect2_neg(v) == VECT2(-v.x, -v.y)

\* |a| measured in units of k.
vect2_abs_in(a, k) ==
  k * Sqrt(RDiv(a.x, k) * RDiv(a.x, k) + RDiv(a.y, k) * RDiv(a.y, k))

\* The unit that keeps the squares of a vector within 32 bits, its larger
\* component being m.
vect2_abs_unit(m) == IF m <= 30000 THEN 1 ELSE (m \div 30000) + 1

\* |a|.  Long vectors are measured in coarser units, as a double drops low
\* digits.
vect2_abs(a) == vect2_abs_in(a, vect2_abs_unit(MAX(Abs(a.x), Abs(a.y))))

vect2_dist(a, b) == vect2_abs(vect2_sub(a, b))

\* A unit direction (components times One) scaled to the length `len'.
vect2_scmul(dir, len) == VECT2(MulDiv(dir.x, len, One), MulDiv(dir.y, len, One))

\* The projection of `a' on the unit direction `dir', in a's units.
vect2_dotprod(a, dir) ==
  MulDiv(a.x, dir.x, One) + MulDiv(a.y, dir.y, One)

\* `a', of length oldval, rescaled to the length `len'; the zero vector
\* stays zero.
vect2_set_abs_from(a, len, oldval) ==
  IF oldval # 0
  THEN VECT2(MulDiv(a.x, len, oldval), MulDiv(a.y, len, oldval))
  ELSE ZERO_VECT2

vect2_set_abs(a, len) == vect2_set_abs_from(a, len, vect2_abs(a))

\* `v' turned by 90 degrees, to the right (clockwise) or to the left.
vect2_norm(v, right) ==
  IF right THEN VECT2(v.y, -v.x) ELSE VECT2(-v.y, v.x)

\* The unit vector along heading `hdg'.
hdg2dir(hdg) == VECT2(Sin(hdg), Cos(hdg))

\* A heading brought into [0, 360).
normalize_hdg(hdg) == IF hdg = NaN THEN NaN ELSE hdg % (360 * Deg)

RECURSIVE Atan(_, _, _, _)
\* The angle in [lo, hi] (within [0, 90] degrees) whose tangent is nearest
\* to x / y.
Atan(x, y, lo, hi) ==
  IF hi - lo <= 1
  THEN IF Abs(Sin(lo) * y - Cos(lo) * x) <= Abs(Sin(hi) * y - Cos(hi) * x)
       THEN lo ELSE hi
  ELSE IF Sin((lo + hi) \div 2) * y - Cos((lo + hi) \div 2) * x <= 0
       THEN Atan(x, y, (lo + hi) \div 2, hi)
       ELSE Atan(x, y, lo, (lo + hi) \div 2)

\* The arc tangent tabulated for the ratios 0, 1/One, .. 1: entry t + 1 is
\* the angle in [0, 45 degrees] whose tangent is t / One.
AtanTab == << >> \o [i \in 1..(One + 1) |-> Atan(i - 1, One, 0, 45 * Deg)]

\* The heading of a vector, in [0, 360); NaN for the zero vector (0 / 0).
dir2hdg(dir) ==
  LET \* the angle off the y axis of a vector in the first quadrant
      off(ax, ay) ==
        IF ax <= ay THEN AtanTab[MulDiv(ax, One, ay) + 1]
        ELSE 90 * Deg - AtanTab[MulDiv(ay, One, ax) + 1]
      placed(a) ==
        IF dir.x >= 0 /\ dir.y >= 0 THEN a
        ELSE IF dir.x < 0 /\ dir.y >= 0 THEN (360 * Deg - a) % (360 * Deg)
        ELSE IF dir.x >= 0 THEN 180 * Deg - a
        ELSE 180 * Deg + a
  IN  IF dir.x = 0 /\ dir.y = 0 THEN NaN
      ELSE placed(off(Abs(dir.x), Abs(dir.y)))

\* The signed shortest turn from hdg1 to hdg2, in (-180, 180]; NaN if
\* either is NaN.
rel_hdg(hdg1, hdg2) ==
  IF hdg1 = NaN \/ hdg2 = NaN THEN NaN
  ELSE IF hdg1 > hdg2
       THEN IF hdg1 >= hdg2 + 180 * Deg THEN 360 * Deg - hdg1 + hdg2
            ELSE -(hdg1 - hdg2)
       ELSE IF hdg2 > hdg1 + 180 * Deg THEN -(360 * Deg - hdg2 + hdg1)
            ELSE hdg2 - hdg1

\* fabs(), ABS(): NaN stays NaN.
fabs(x) == IF x = NaN THEN NaN ELSE Abs(x)

\* The C comparisons on doubles: false when an operand is NaN.
Lt(a, b) == a # NaN /\ b # NaN /\ a < b

Le(a, b) == a # NaN /\ b # NaN /\ a <= b

Gt(a, b) == a # NaN /\ b # NaN /\ a > b

Ge(a, b) == a # NaN /\ b # NaN /\ a >= b

\* Where the ray from `oa' along `a' meets the ray from `ob' along `b';
\* NULL_VECT2 when they are parallel or the crossing lies behind either
\* origin.  (The callers' rays are 1e10 m long: unbounded here, and given
\* by their unit directions.)
vect2vect_isect_at(a, oa, confined, det, ca, cb) ==
  IF det = 0 THEN NULL_VECT2
  ELSE IF confined /\ (ca * Sgn(det) < 0 \/ cb * Sgn(det) < 0)
  THEN NULL_VECT2
  ELSE vect2_add(oa, vect2_scmul(a, MulDiv(ca, One, det)))

\* The crossing by Cramer's rule, `d' being the vector from oa to ob.
vect2vect_isect_by(a, oa, b, confined, d) ==
  vect2vect_isect_at(a, oa, confined, a.x * b.y - a.y * b.x,
                     d.x * b.y - d.y * b.x, d.x * a.y - d.y * a.x)

vect2vect_isect(a, oa, b, ob, confined) ==
  IF VECT2_EQ(oa, ob) THEN oa
  ELSE vect2vect_isect_by(a, oa, b, confined, vect2_sub(ob, oa))

\* Whether the radial `angle_x' lies on the arc from angle1 to angle2,
\* taken clockwise or counter-clockwise.
is_on_arc(angle_x, angle1, angle2, cw) ==
  IF cw
  THEN IF Lt(angle1, angle2)
       THEN Ge(angle_x, angle1) /\ Le(angle_x, angle2)
       ELSE Ge(angle_x, angle1) \/ Le(angle_x, angle2)
  ELSE IF Lt(angle1, angle2)
       THEN Le(angle_x, angle1) \/ Ge(angle_x, angle2)
       ELSE Le(angle_x, angle1) /\ Ge(angle_x, angle2)

\* The real roots of a*t^2 + b*t + c = 0, a in mm/s^2, b in cm/s, c in cm:
\* [n |-> how many, x |-> the roots in milliseconds].
quadratic_solve_disc(a, b, tmp) ==
  IF tmp > 0
  THEN [n |-> 2,
        x |-> << RDiv((-b + Sqrt(tmp)) * 10000, 2 * a),
                 RDiv((-b - Sqrt(tmp)) * 10000, 2 * a) >>]
  ELSE IF tmp = 0
  THEN [n |-> 1, x |-> << RDiv(-b * 10000, 2 * a) >>]
  ELSE [n |-> 0, x |-> << >>]

quadratic_solve(a, b, c) ==
  IF a = 0
  THEN IF b = 0 THEN [n |-> 0, x |-> << >>]
       ELSE [n |-> 1, x |-> << RDiv(-c * 1000, b) >>]
  ELSE quadratic_solve_disc(a, b, b * b - RDiv(4 * a * c, 10))

---------------------------------------------------------------------------
(* src/src/driving.c: constants.  Speeds in cm/s, accelerations in mm/s^2, *)
(* lengths in cm, angles in tenths of a degree, angular velocities in      *)
(* thousandths of a degree per second.                                     *)

NORMAL_SPEED == 111

FAST_SPEED == 400

CRAWL_SPEED == 10

NORMAL_DECEL == 170

\* SEG_TURN_MULT 0.9, in tenths.
SEG_TURN_MULT == 9

\* MAX_ANG_VEL 3 degrees per second, in thousandths of a degree per second.
MAX_ANG_VEL == 3000

MIN_TURN_RADIUS == 150

MIN_STEERING_ARM_LEN == 200

MAX_OFF_PATH_ANGLE == 350

STEER_GATE(x, g) == MIN(MAX(x, -g), g)

---------------------------------------------------------------------------
(* Segments (seg_t) and the path synthesizer.                              *)

SEG_TYPE_STRAIGHT == "straight"

SEG_TYPE_TURN == "turn"

\* calloc(1, sizeof (seg_t)): every field zero.
calloc_seg ==
  [type |-> SEG_TYPE_STRAIGHT, start_pos |-> ZERO_VECT2, start_hdg |-> 0,
   end_pos |-> ZERO_VECT2, end_hdg |-> 0, backward |-> FALSE, len |-> 0,
   r |-> 0, right |-> FALSE, user_placed |-> FALSE]

list_insert_tail(segs, s) == Append(segs, s)

\* A faulty variant of seg_straight: a backward segment's headings are
\* stored as the direction of travel.
seg_straight_travel_hdg(start_pos, start_hdg, end_pos, end_hdg, backward, len) ==
  [calloc_seg EXCEPT
     !.type = SEG_TYPE_STRAIGHT,
     !.start_pos = start_pos,
     !.start_hdg = start_hdg + (IF backward THEN 180 * Deg ELSE 0),
     !.end_pos = end_pos,
     !.end_hdg = end_hdg + (IF backward THEN 180 * Deg ELSE 0),
     !.backward = backward,
     !.len = len]

\* A faulty variant of seg_turn: the start pose is filled in from the end
\* pose.
seg_turn_from_end(start_pos, start_hdg, end_pos, end_hdg, backward, r, right) ==
  [calloc_seg EXCEPT
     !.type = SEG_TYPE_TURN,
     !.start_pos = end_pos,
     !.start_hdg = end_hdg,
     !.end_pos = end_pos,
     !.end_hdg = end_hdg,
     !.backward = backward,
     !.r = r,
     !.right = right]

\* Faulty variants of overlap_ret: the headings are not looked at, or the
\* two results are exchanged.
overlap_ret_any(start_hdg, end_hdg) == 0

overlap_ret_swapped(start_hdg, end_hdg) == IF start_hdg = end_hdg THEN -1 ELSE 0

\* A Straight segment as compute_segs fills it in.
seg_straight(start_pos, start_hdg, end_pos, end_hdg, backward, len) ==
  [calloc_seg EXCEPT
     !.type = SEG_TYPE_STRAIGHT,
     !.start_pos = start_pos,
     !.start_hdg = start_hdg,
     !.end_pos = end_pos,
     !.end_hdg = end_hdg,
     !.backward = backward,
     !.len = len]

\* A Turn segment as compute_segs fills it in.
seg_turn(start_pos, start_hdg, end_pos, end_hdg, backward, r, right) ==
  [calloc_seg EXCEPT
     !.type = SEG_TYPE_TURN,
     !.start_pos = start_pos,
     !.start_hdg = start_hdg,
     !.end_pos = end_pos,
     !.end_hdg = end_hdg,
     !.backward = backward,
     !.r = r,
     !.right = right]

\* What compute_segs returns when the start and end positions overlap.
overlap_ret(start_hdg, end_hdg) == IF start_hdg = end_hdg THEN 0 ELSE -1

\* compute_segs returns [ret |-> the value returned, at |-> the return
\* statement that returned it, segs |-> the caller's list afterwards].  The
\* function is split into its successive steps, the last step first; each
\* step takes the values the steps before it computed.

\* No initial straight segment: a turn to s2_start, then a straight.
compute_segs_turn_first(start_pos, start_hdg, end_pos, end_hdg, segs, backward, right, l2, r, s2_start) ==
  [ret |-> 2, at |-> "pair",
   segs |-> list_insert_tail(
              list_insert_tail(segs,
                seg_turn(start_pos, start_hdg, s2_start, end_hdg, backward,
                         r, right)),
              seg_straight(s2_start, end_hdg, end_pos, end_hdg, backward,
                           l2))]

\* A compute_segs that returns 2 with the turn alone on the list.
compute_segs_straight_first_lost(start_pos, start_hdg, end_pos, end_hdg, segs, backward, right, l1, r, s1_end) ==
  [ret |-> 2, at |-> "pair",
   segs |-> list_insert_tail(segs,
              seg_turn(s1_end, start_hdg, end_pos, end_hdg, backward, r,
                       right))]

\* No final straight segment: a straight to s1_end, then a turn.
compute_segs_straight_first(start_pos, start_hdg, end_pos, end_hdg, segs, backward, right, l1, r, s1_end) ==
  [ret |-> 2, at |-> "pair",
   segs |-> list_insert_tail(
              list_insert_tail(segs,
                seg_straight(start_pos, start_hdg, s1_end, start_hdg,
                             backward, l1)),
              seg_turn(s1_end, start_hdg, end_pos, end_hdg, backward, r,
                       right))]

\* The radius r of the turn against the minimum radius, and the segments.
compute_segs_turn(min_radius, start_pos, start_hdg, end_pos, end_hdg, segs, backward, right, s1_v, s2_v, l1, l2, r) ==
  IF r < min_radius
  THEN [ret |-> -1, at |-> "radius", segs |-> segs]
  ELSE IF l1 = 0
  THEN compute_segs_turn_first(start_pos, start_hdg, end_pos, end_hdg, segs,
         backward, right, l2, r,
         vect2_add(end_pos, vect2_set_abs(s2_v, l2)))
  ELSE compute_segs_straight_first(start_pos, start_hdg, end_pos, end_hdg,
         segs, backward, right, l1, r,
         vect2_add(start_pos, vect2_set_abs(s1_v, l1)))

\* x = MIN(l1, l2) comes off both distances to the crossing, and
\* r = x * tan(DEG2RAD(a / 2)) with a = 180 - ABS(rel_hdg(start_hdg, end_hdg)).
compute_segs_lens(min_radius, start_pos, start_hdg, end_pos, end_hdg, segs, backward, right, s1_v, s2_v, l1, l2) ==
  compute_segs_turn(min_radius, start_pos, start_hdg, end_pos, end_hdg, segs,
    backward, right, s1_v, s2_v, l1 - MIN(l1, l2), l2 - MIN(l1, l2),
    MulDiv(MIN(l1, l2),
           Tan(RDiv(180 * Deg - Abs(rel_hdg(start_hdg, end_hdg)), 2)), One))

\* The crossing turn_edge of the two pose lines.
compute_segs_isect(min_radius, start_pos, start_hdg, end_pos, end_hdg, segs, backward, right, s1_v, s2_v, turn_edge) ==
  IF IS_NULL_VECT(turn_edge)
  THEN [ret |-> -1, at |-> "no_isect", segs |-> segs]
  ELSE compute_segs_lens(min_radius, start_pos, start_hdg, end_pos, end_hdg,
         segs, backward, right, s1_v, s2_v,
         vect2_dist(turn_edge, start_pos), vect2_dist(turn_edge, end_pos))

\* The general case, given the directions s1_v and s2_v of the pose lines.
compute_segs_lines(min_radius, start_pos, start_hdg, end_pos, end_hdg, segs, backward, right, s1_v, s2_v) ==
  compute_segs_isect(min_radius, start_pos, start_hdg, end_pos, end_hdg,
    segs, backward, right, s1_v, s2_v,
    vect2vect_isect(s1_v, start_pos, s2_v, end_pos, TRUE))

\* The tiny heading change: the end point projected on dir_v, at `len'.
compute_segs_project(start_pos, start_hdg, end_hdg, segs, backward, dir_v, len) ==
  [ret |-> 1, at |-> "straight",
   segs |-> list_insert_tail(segs,
              seg_straight(start_pos, start_hdg,
                           vect2_add(vect2_set_abs(dir_v, len), start_pos),
                           end_hdg, backward, len))]

compute_segs_straight(start_pos, start_hdg, end_pos, end_hdg, segs, backward, dir_v) ==
  compute_segs_project(start_pos, start_hdg, end_hdg, segs, backward, dir_v,
    vect2_dotprod(dir_v, vect2_sub(end_pos, start_pos)))

\* compute_segs once rhdg, the bearing of the end position off the start
\* heading, is known.
compute_segs_rhdg(min_radius, start_pos, start_hdg, end_pos, end_hdg, segs, backward, right) ==
  IF Abs(start_hdg - end_hdg) < 1 * Deg
  THEN compute_segs_straight(start_pos, start_hdg, end_pos, end_hdg, segs,
         backward,
         hdg2dir(start_hdg + (IF backward THEN 180 * Deg ELSE 0)))
  ELSE compute_segs_lines(min_radius, start_pos, start_hdg, end_pos, end_hdg,
         segs, backward, right,
         IF backward THEN vect2_neg(hdg2dir(start_hdg))
         ELSE hdg2dir(start_hdg),
         IF ~backward THEN vect2_neg(hdg2dir(end_hdg))
         ELSE hdg2dir(end_hdg))

\* compute_segs down from its first statement, for a vehicle whose minimum
\* turn radius is min_radius.
compute_segs_for(min_radius, start_pos, start_hdg, end_pos, end_hdg, segs) ==
  \* If the start & end positions overlap, no operation is required
  IF VECT2_EQ(start_pos, end_pos)
  THEN [ret |-> overlap_ret(start_hdg, end_hdg), at |-> "overlap",
        segs |-> segs]
  ELSE compute_segs_rhdg(min_radius, start_pos, start_hdg, end_pos, end_hdg,
         segs,
         Gt(fabs(rel_hdg(start_hdg,
                         dir2hdg(vect2_sub(end_pos, start_pos)))),
            90 * Deg),
         Ge(rel_hdg(start_hdg, dir2hdg(vect2_sub(end_pos, start_pos))), 0))

\* The minimum radius uses less than max_steer (hence SEG_TURN_MULT), and
\* is limited to MIN_TURN_RADIUS.
min_radius(veh) ==
  MAX(MulDiv(Tan(90 * Deg - RDiv(veh.max_steer * SEG_TURN_MULT, 10)),
             veh.wheelbase, One),
      MIN_TURN_RADIUS)

\* compute_segs of driving.c.
compute_segs(veh, start_pos, start_hdg, end_pos, end_hdg, segs) ==
  compute_segs_for(min_radius(veh), start_pos, start_hdg, end_pos, end_hdg,
                   segs)

---------------------------------------------------------------------------
(* The path follower: speed planning.  `next' is an index into segs, NULL  *)
(* past its end.                                                           *)

NULL == 0

list_head(segs) == IF Len(segs) = 0 THEN NULL ELSE 1

list_tail(segs) == IF Len(segs) = 0 THEN NULL ELSE Len(segs)

list_next(segs, i) == IF i = NULL \/ i >= Len(segs) THEN NULL ELSE i + 1

\* The list without its element i.
list_remove(segs, i) ==
  SubSeq(segs, 1, i - 1) \o SubSeq(segs, i + 1, Len(segs))

\* An angle in tenths of a degree as thousandths of a radian.
DEG2RAD(h) == RDiv(h * 31416, 18000)

\* RAD2DEG(spd / radius) in thousandths of a degree per second, for a speed
\* in cm/s and a radius in cm.
AngVel(spd, radius) == RDiv(spd * 57296, radius)

\* speed *= MIN(max_ang_vel / ang_vel, 1): a comparison with NaN is false,
\* and so is inf < 1, so the speed is kept for a NaN or zero ang_vel.
ang_vel_limit(spd, max_ang_vel, ang_vel) ==
  IF ang_vel = NaN \/ ang_vel = 0 THEN spd
  ELSE IF ang_vel = Inf THEN 0
  ELSE IF max_ang_vel < ang_vel THEN MulDiv(spd, max_ang_vel, ang_vel)
  ELSE spd

\* straight_run_speed once the speed to enter the next segment with and the
\* time `q' to decelerate to it are known.
straight_run_speed_for(next_spd, cruise_spd, q) ==
  IF q.n = 1
  THEN MIN(RDiv(NORMAL_DECEL * q.x[1], 10000) + next_spd, cruise_spd)
  ELSE IF q.n = 2
  THEN MIN(RDiv(NORMAL_DECEL * MAX(q.x[1], q.x[2]), 10000) + next_spd,
           cruise_spd)
  ELSE next_spd

\* A straight_run_speed with the forward cruise speed in both directions.
straight_run_speed_to_fast(rmng_d, backward, next_spd) ==
  straight_run_speed_for(next_spd, FAST_SPEED,
    quadratic_solve(NORMAL_DECEL \div 2, next_spd, -rmng_d))

straight_run_speed_to(rmng_d, backward, next_spd) ==
  straight_run_speed_for(next_spd,
    IF backward THEN NORMAL_SPEED ELSE FAST_SPEED,
    quadratic_solve(NORMAL_DECEL \div 2, next_spd, -rmng_d))

\* turn_run_speed once the straight-line speed `spd' over the arc is known.
\* rmng_t = rmng_d / spd and ang_vel = rhdg / rmng_t: with rmng_d the arc
\* radius * DEG2RAD(rhdg) that is RAD2DEG(spd / radius), but 0 / 0 = NaN
\* when rhdg is 0, rhdg / inf = 0 when spd is 0, and infinite when the
\* arc has no length.
turn_run_speed_for(rhdg, radius, max_ang_vel, spd) ==
  ang_vel_limit(spd, max_ang_vel,
    IF rhdg = 0 THEN NaN
    ELSE IF spd = 0 THEN 0
    ELSE IF radius = 0 THEN Inf
    ELSE AngVel(spd, radius))

RECURSIVE next_seg_speed(_, _, _, _)
RECURSIVE turn_run_speed(_, _, _, _, _, _)
RECURSIVE straight_run_speed(_, _, _, _, _)

next_seg_speed(segs, next, cur_backward, max_ang_vel) ==
  IF next # NULL /\ segs[next].backward = cur_backward
  THEN IF segs[next].type = SEG_TYPE_STRAIGHT
       THEN straight_run_speed(segs, segs[next].len, segs[next].backward,
                               max_ang_vel, list_next(segs, next))
       ELSE turn_run_speed(segs,
                           rel_hdg(segs[next].start_hdg, segs[next].end_hdg),
                           segs[next].r, segs[next].backward, max_ang_vel,
                           list_next(segs, next))
  ELSE \* At the end of the operation or when reversing direction
       CRAWL_SPEED

turn_run_speed(segs, rhdg, radius, backward, max_ang_vel, next) ==
  turn_run_speed_for(rhdg, radius, max_ang_vel,
    straight_run_speed(segs, MulDiv(radius, DEG2RAD(rhdg), 1000), backward,
                       max_ang_vel, next))

straight_run_speed(segs, rmng_d, backward, max_ang_vel, next) ==
  straight_run_speed_to(rmng_d, backward,
    next_seg_speed(segs, next, backward, max_ang_vel))

---------------------------------------------------------------------------
(* The path follower: the steering law and the segment dispatch.  A        *)
(* vehicle_pos_t is [pos, hdg, spd]; a vehicle_t is [wheelbase,            *)
(* max_steer].  steer_corr_amp is in tenths, d_t in milliseconds.  A       *)
(* function is split into its successive steps, the last step first: each  *)
(* step is an operator on the values the steps before it computed.         *)

\* drive_on_line, last step: steering works in reverse when pushing back;
\* the three outputs.
drive_on_line_out(steer_corr_amp, mis_hdg, steer, speed) ==
  [steer_out |-> RDiv((IF speed < 0 THEN -steer ELSE steer) * steer_corr_amp,
                      10),
   speed_out |-> speed,
   last_mis_hdg |-> mis_hdg]

\* turn_radius = tan(DEG2RAD(90 - ABS(steer))) * wheelbase and
\* ang_vel = RAD2DEG(ABS(speed) / turn_radius), given the tangent.
drive_on_line_ang_vel(veh, speed, tan_s) ==
  IF tan_s = Inf THEN 0
  ELSE IF MulDiv(tan_s, veh.wheelbase, One) = 0
  THEN (IF speed = 0 THEN NaN ELSE Inf)
  ELSE AngVel(Abs(speed), MulDiv(tan_s, veh.wheelbase, One))

\* drive_on_line from the gated steering command on: the speed limit for
\* the angular velocity of the correction.
drive_on_line_limit(veh, steer_corr_amp, mis_hdg, steer, speed) ==
  drive_on_line_out(steer_corr_amp, mis_hdg, steer,
    ang_vel_limit(speed, MAX_ANG_VEL,
      drive_on_line_ang_vel(veh, speed, Tan(90 * Deg - Abs(steer)))))

\* drive_on_line from mis_hdg, rhdg and d_mis_hdg on: the steering command
\* gated to max_steer, and the override when pointing too far off the path.
drive_on_line_steer(veh, speed, steer_corr_amp, mis_hdg, rhdg, d_mis_hdg) ==
  IF Lt(mis_hdg, 0) /\ Gt(rhdg, MAX_OFF_PATH_ANGLE)
  THEN drive_on_line_limit(veh, steer_corr_amp, mis_hdg,
         STEER_GATE(rhdg - MAX_OFF_PATH_ANGLE, veh.max_steer),
         MAX(MIN(speed, NORMAL_SPEED), -NORMAL_SPEED))
  ELSE IF Gt(mis_hdg, 0) /\ Lt(rhdg, -MAX_OFF_PATH_ANGLE)
  THEN drive_on_line_limit(veh, steer_corr_amp, mis_hdg,
         STEER_GATE(rhdg + MAX_OFF_PATH_ANGLE, veh.max_steer),
         MAX(MIN(speed, NORMAL_SPEED), -NORMAL_SPEED))
  ELSE drive_on_line_limit(veh, steer_corr_amp, mis_hdg,
         STEER_GATE(IF d_mis_hdg = NaN THEN NaN
                    ELSE mis_hdg + RDiv(d_mis_hdg * steer_corr_amp, 10),
                    veh.max_steer),
         speed)

\* drive_on_line from mis_hdg and rhdg on.
drive_on_line_mis(veh, speed, steer_corr_amp, last_mis_hdg, d_t, mis_hdg, rhdg) ==
  drive_on_line_steer(veh, speed, steer_corr_amp, mis_hdg, rhdg,
    IF mis_hdg = NaN \/ last_mis_hdg = NaN THEN NaN
    ELSE RDiv((mis_hdg - last_mis_hdg) * 1000, d_t))

\* The point `c' we are trying to align: the tip of the steering arm.
drive_on_line_c(pos, cur_hdg, arm_len) ==
  vect2_add(pos.pos, vect2_scmul(hdg2dir(cur_hdg),
                                 MAX(arm_len, MIN_STEERING_ARM_LEN)))

\* Our position projected onto the line, given the line's direction.
drive_on_line_align_s(pos, line_start, dir_v) ==
  vect2_add(line_start,
            vect2_scmul(dir_v,
                        vect2_dotprod(vect2_sub(pos.pos, line_start), dir_v)))

\* drive_on_line on a vehicle that travels in the commanded direction.
drive_on_line_aim(pos, veh, line_start, line_hdg, speed, arm_len, steer_corr_amp, last_mis_hdg, d_t, cur_hdg) ==
  drive_on_line_mis(veh, speed, steer_corr_amp, last_mis_hdg, d_t,
    rel_hdg(dir2hdg(vect2_sub(drive_on_line_c(pos, cur_hdg, arm_len),
                              drive_on_line_align_s(pos, line_start,
                                                    hdg2dir(line_hdg)))),
            line_hdg),
    rel_hdg(cur_hdg, line_hdg))

\* A drive_on_line that leaves the steering as it was until the vehicle
\* travels in the commanded direction.
drive_on_line_steer_kept(pos, veh, line_start, line_hdg, speed, arm_len, steer_corr_amp, last_mis_hdg, d_t, steer_out, speed_out) ==
  IF (speed < 0 /\ pos.spd > 0) \/ (speed > 0 /\ pos.spd < 0)
  THEN [steer_out |-> steer_out, speed_out |-> speed,
        last_mis_hdg |-> last_mis_hdg]
  ELSE drive_on_line_aim(pos, veh, line_start, line_hdg, speed, arm_len,
                         steer_corr_amp, last_mis_hdg, d_t,
                         IF speed >= 0 THEN pos.hdg
                         ELSE normalize_hdg(pos.hdg + 180 * Deg))

\* A drive_on_line that forgets the heading error sample while the vehicle
\* travels against the commanded direction.
drive_on_line_sample_reset(pos, veh, line_start, line_hdg, speed, arm_len, steer_corr_amp, last_mis_hdg, d_t, steer_out, speed_out) ==
  IF (speed < 0 /\ pos.spd > 0) \/ (speed > 0 /\ pos.spd < 0)
  THEN [steer_out |-> 0, speed_out |-> speed, last_mis_hdg |-> 0]
  ELSE drive_on_line_aim(pos, veh, line_start, line_hdg, speed, arm_len,
                         steer_corr_amp, last_mis_hdg, d_t,
                         IF speed >= 0 THEN pos.hdg
                         ELSE normalize_hdg(pos.hdg + 180 * Deg))

\* drive_on_line: [steer_out, speed_out, last_mis_hdg] after the call, given
\* the values the three had before it.
drive_on_line(pos, veh, line_start, line_hdg, speed, arm_len, steer_corr_amp, last_mis_hdg, d_t, steer_out, speed_out) ==
  \* Neutralize steering until we're traveling in our direction
  IF (speed < 0 /\ pos.spd > 0) \/ (speed > 0 /\ pos.spd < 0)
  THEN [steer_out |-> 0, speed_out |-> speed, last_mis_hdg |-> last_mis_hdg]
  ELSE drive_on_line_aim(pos, veh, line_start, line_hdg, speed, arm_len,
                         steer_corr_amp, last_mis_hdg, d_t,
                         IF speed >= 0 THEN pos.hdg
                         ELSE normalize_hdg(pos.hdg + 180 * Deg))

\* The heading to follow in a turn: the tangent while the vehicle's radial
\* is on the arc, else the start or end heading, whichever radial is nearer.
turn_run_hdg(c2r, cur_radial, start_hdg, end_hdg, start_radial, end_radial, cw) ==
  IF is_on_arc(cur_radial, start_radial, end_radial, cw)
  THEN dir2hdg(vect2_norm(c2r, cw))
  ELSE IF Lt(fabs(rel_hdg(cur_radial, start_radial)),
             fabs(rel_hdg(cur_radial, end_radial)))
  THEN start_hdg
  ELSE end_hdg

\* A turn_run that commands a backward turn with the speed of a forward
\* one.
turn_run_on_forward(pos, veh, seg, last_mis_hdg, d_t, speed, out_steer, out_speed, start_hdg, end_hdg, cw, c, c2r) ==
  drive_on_line(pos, veh, vect2_add(c, c2r),
                turn_run_hdg(c2r, dir2hdg(c2r), start_hdg, end_hdg,
                  normalize_hdg(start_hdg + (IF cw THEN -90 ELSE 90) * Deg),
                  normalize_hdg(end_hdg + (IF cw THEN -90 ELSE 90) * Deg),
                  cw),
                speed, veh.wheelbase \div 5, 20, last_mis_hdg, d_t,
                out_steer, out_speed)

\* turn_run from the radial vector c2r on: `r' is the point of the arc on
\* the vehicle's radial.
turn_run_on(pos, veh, seg, last_mis_hdg, d_t, speed, out_steer, out_speed, start_hdg, end_hdg, cw, c, c2r) ==
  drive_on_line(pos, veh, vect2_add(c, c2r),
                turn_run_hdg(c2r, dir2hdg(c2r), start_hdg, end_hdg,
                  normalize_hdg(start_hdg + (IF cw THEN -90 ELSE 90) * Deg),
                  normalize_hdg(end_hdg + (IF cw THEN -90 ELSE 90) * Deg),
                  cw),
                IF ~seg.backward THEN speed ELSE -speed,
                veh.wheelbase \div 5, 20, last_mis_hdg, d_t, out_steer,
                out_speed)

\* turn_run from the center `c' of the turn on.
turn_run_at(pos, veh, seg, last_mis_hdg, d_t, speed, out_steer, out_speed, start_hdg, end_hdg, cw, c) ==
  turn_run_on(pos, veh, seg, last_mis_hdg, d_t, speed, out_steer, out_speed,
              start_hdg, end_hdg, cw, c,
              vect2_set_abs(vect2_sub(pos.pos, c), seg.r))

\* `c' is the center of the turn. Displace it at right angle to start_hdg
\* at start_pos by the turn radius.
turn_run_c(seg, start_hdg) ==
  vect2_add(vect2_set_abs(vect2_norm(hdg2dir(start_hdg), seg.right), seg.r),
            seg.start_pos)

\* turn_run with the segment's headings turned around for a backward turn.
turn_run_from(pos, veh, seg, last_mis_hdg, d_t, speed, out_steer, out_speed, start_hdg, end_hdg) ==
  turn_run_at(pos, veh, seg, last_mis_hdg, d_t, speed, out_steer, out_speed,
              start_hdg, end_hdg,
              (seg.right /\ ~seg.backward) \/ (~seg.right /\ seg.backward),
              turn_run_c(seg, start_hdg))

turn_run(pos, veh, seg, last_mis_hdg, d_t, speed, out_steer, out_speed) ==
  turn_run_from(pos, veh, seg, last_mis_hdg, d_t, speed, out_steer,
                out_speed,
                IF ~seg.backward THEN seg.start_hdg
                ELSE normalize_hdg(seg.start_hdg + 180 * Deg),
                IF ~seg.backward THEN seg.end_hdg
                ELSE normalize_hdg(seg.end_hdg + 180 * Deg))

\* A drive_segs that removes the last segment of the list for a complete
\* head.
drive_segs_done_tail(segs, last_mis_hdg, out_steer, out_speed) ==
  [ret |-> FALSE, segs |-> list_remove(segs, list_tail(segs)),
   out |-> [last_mis_hdg |-> last_mis_hdg, steer_out |-> out_steer,
            speed_out |-> out_speed]]

\* drive_segs when the head is complete: it is removed and nothing is
\* written.
drive_segs_done(segs, last_mis_hdg, out_steer, out_speed) ==
  [ret |-> FALSE, segs |-> list_remove(segs, list_head(segs)),
   out |-> [last_mis_hdg |-> last_mis_hdg, steer_out |-> out_steer,
            speed_out |-> out_speed]]

\* drive_segs on a Straight head `seg', `len' from its start.
\* A drive_segs that tracks a backward Straight along its start heading as
\* it stands.
drive_segs_straight_unreversed(pos, veh, segs, max_ang_vel, last_mis_hdg, d_t, out_steer, out_speed, seg, len) ==
  IF len >= seg.len
  THEN drive_segs_done(segs, last_mis_hdg, out_steer, out_speed)
  ELSE [ret |-> TRUE, segs |-> segs,
        out |-> drive_on_line(pos, veh, seg.start_pos, seg.start_hdg,
                  (IF ~seg.backward THEN 1 ELSE -1) *
                    straight_run_speed(segs, seg.len - len, seg.backward,
                      max_ang_vel, list_next(segs, list_head(segs))),
                  veh.wheelbase \div 2, 15, last_mis_hdg, d_t, out_steer,
                  out_speed)]

drive_segs_straight(pos, veh, segs, max_ang_vel, last_mis_hdg, d_t, out_steer, out_speed, seg, len) ==
  IF len >= seg.len
  THEN drive_segs_done(segs, last_mis_hdg, out_steer, out_speed)
  ELSE [ret |-> TRUE, segs |-> segs,
        out |-> drive_on_line(pos, veh, seg.start_pos,
                  IF ~seg.backward THEN seg.start_hdg
                  ELSE normalize_hdg(seg.start_hdg + 180 * Deg),
                  (IF ~seg.backward THEN 1 ELSE -1) *
                    straight_run_speed(segs, seg.len - len, seg.backward,
                      max_ang_vel, list_next(segs, list_head(segs))),
                  veh.wheelbase \div 2, 15, last_mis_hdg, d_t, out_steer,
                  out_speed)]

\* A drive_segs that takes a Turn for complete only at the very bearing of
\* its end heading.
drive_segs_turn_dead_ahead(pos, veh, segs, max_ang_vel, last_mis_hdg, d_t, out_steer, out_speed, seg, rhdg, end_brg) ==
  IF Le(end_brg, 0)
  THEN [ret |-> FALSE, segs |-> list_remove(segs, list_head(segs)),
        out |-> [last_mis_hdg |-> last_mis_hdg, steer_out |-> out_steer,
                 speed_out |-> out_speed]]
  ELSE [ret |-> TRUE, segs |-> segs,
        out |-> [last_mis_hdg |-> last_mis_hdg, steer_out |-> out_steer,
                 speed_out |-> out_speed]]

\* drive_segs on a Turn head `seg', rhdg off its end heading and at the
\* bearing end_brg from its end position.
drive_segs_turn(pos, veh, segs, max_ang_vel, last_mis_hdg, d_t, out_steer, out_speed, seg, rhdg, end_brg) ==
  \* Segment complete when we are past the end_pos point
  IF Le(end_brg, 90 * Deg)
  THEN drive_segs_done(segs, last_mis_hdg, out_steer, out_speed)
  ELSE [ret |-> TRUE, segs |-> segs,
        out |-> turn_run(pos, veh, seg, last_mis_hdg, d_t,
                  turn_run_speed(segs, Abs(rhdg), seg.r, seg.backward,
                    max_ang_vel, list_next(segs, list_head(segs))),
                  out_steer, out_speed)]

\* A drive_segs that takes a Turn for complete by the vehicle's heading,
\* within 90 degrees of the end heading.
drive_segs_head_by_heading(pos, veh, segs, max_ang_vel, last_mis_hdg, d_t, out_steer, out_speed, seg) ==
  IF seg.type = SEG_TYPE_STRAIGHT
  THEN drive_segs_straight(pos, veh, segs, max_ang_vel, last_mis_hdg, d_t,
         out_steer, out_speed, seg, vect2_dist(pos.pos, seg.start_pos))
  ELSE drive_segs_turn(pos, veh, segs, max_ang_vel, last_mis_hdg, d_t,
         out_steer, out_speed, seg,
         fabs(rel_hdg(pos.hdg, seg.end_hdg)),
         fabs(rel_hdg(IF ~seg.backward THEN seg.end_hdg
                      ELSE normalize_hdg(seg.end_hdg + 180 * Deg),
                      IF ~seg.backward THEN pos.hdg
                      ELSE normalize_hdg(pos.hdg + 180 * Deg))))

drive_segs_head(pos, veh, segs, max_ang_vel, last_mis_hdg, d_t, out_steer, out_speed, seg) ==
  IF seg.type = SEG_TYPE_STRAIGHT
  THEN drive_segs_straight(pos, veh, segs, max_ang_vel, last_mis_hdg, d_t,
         out_steer, out_speed, seg, vect2_dist(pos.pos, seg.start_pos))
  ELSE drive_segs_turn(pos, veh, segs, max_ang_vel, last_mis_hdg, d_t,
         out_steer, out_speed, seg,
         fabs(rel_hdg(pos.hdg, seg.end_hdg)),
         fabs(rel_hdg(IF ~seg.backward THEN seg.end_hdg
                      ELSE normalize_hdg(seg.end_hdg + 180 * Deg),
                      dir2hdg(vect2_sub(pos.pos, seg.end_pos)))))

\* drive_segs on a non-empty list: [ret, segs, out] after the call, `out'
\* being [last_mis_hdg, steer_out, speed_out].
drive_segs(pos, veh, segs, max_ang_vel, last_mis_hdg, d_t, out_steer, out_speed) ==
  drive_segs_head(pos, veh, segs, max_ang_vel, last_mis_hdg, d_t, out_steer,
                  out_speed, segs[list_head(segs)])

---------------------------------------------------------------------------
(* src/unnamed/part_000, the plugin's pushback module: constants, in the   *)
(* units above; brake ratios in thousandths, forces in newtons, masses in  *)
(* kilograms; steering rates in tenths of a degree per second.             *)

STRAIGHT_STEER_RATE == 400

TURN_STEER_RATE == 100

STRAIGHT_SPEED == 111

TURN_SPEED == 55

STRAIGHT_ACCEL == 250

TURN_ACCEL == 250

BRAKE_PEDAL_THRESH == 100

FORCE_PER_TON == 5000

BREAKAWAY_THRESH == 10

TURN_COMPLETE_THRESH == 20

SPEED_COMPLETE_THRESH == 5

\* a - b on doubles: NaN when an operand is NaN.
Sub(a, b) == IF a = NaN \/ b = NaN THEN NaN ELSE a - b

\* -a on a double.
Neg(a) == IF a = NaN THEN NaN ELSE -a

\* The minimum radius of the plugin's compute_segs uses less than
\* max_nw_angle (hence SEG_TURN_MULT).
bp_min_radius(acf) ==
  MulDiv(Tan(RDiv(acf.max_nw_angle * SEG_TURN_MULT, 10)), acf.wheelbase, One)

\* compute_segs of the plugin: that of driving.c statement for statement,
\* but for its minimum radius.
bp_compute_segs(acf, start_pos, start_hdg, end_pos, end_hdg, segs) ==
  compute_segs_for(bp_min_radius(acf), start_pos, start_hdg, end_pos,
                   end_hdg, segs)

\* The plugin's operators work on `b', the bp_state_t, and `d', the
\* datarefs; each gives the two as [bp, drs] after the call, or the one of
\* the two it writes.

\* prevent excessive deflection
turn_nosewheel_set(b, d, cur_nw_angle) ==
  [d EXCEPT !.tire_steer_cmd =
     MAX(MIN(cur_nw_angle, b.acf.max_nw_angle), -b.acf.max_nw_angle)]

\* The steering increment, within the rate of turn limit.
turn_nosewheel_incr(b, d, req_angle, steer_incr) ==
  turn_nosewheel_set(b, d,
    d.tire_steer_cmd + (IF Lt(d.tire_steer_cmd, req_angle) THEN steer_incr
                        ELSE -steer_incr))

\* turn_nosewheel: the datarefs afterwards.
turn_nosewheel(b, d, req_angle, rate) ==
  IF d.tire_steer_cmd = req_angle THEN d
  ELSE turn_nosewheel_incr(b, d, req_angle,
         MIN(fabs(Sub(req_angle, d.tire_steer_cmd)),
             MulDiv(rate, b.d_t, 1000)))

\* Don't overstep the force limits for this aircraft
push_at_speed_force(b, force_lim, force) ==
  [b EXCEPT !.last_force = MAX(-force_lim, MIN(force_lim, force))]

\* The force one increment up or down, by the acceleration now against the
\* acceleration max_accel asked for.
push_at_speed_step(b, force_lim, force_incr, accel_now, max_accel) ==
  push_at_speed_force(b, force_lim,
    IF accel_now > max_accel THEN b.last_force + force_incr
    ELSE IF accel_now < max_accel THEN b.last_force - force_incr
    ELSE b.last_force)

\* push_at_speed from d_v on (in mm/s, as max_accel is in mm/s^2); max_accel
\* is already multiplied for a vehicle below BREAKAWAY_THRESH.
push_at_speed_dv(b, force_lim, force_incr, accel_now, max_accel, d_v) ==
  IF Gt(d_v, 0)
  THEN push_at_speed_step(b, force_lim, force_incr, accel_now,
         IF d_v < max_accel /\ Abs(b.cur_spd) >= BREAKAWAY_THRESH
         THEN d_v ELSE max_accel)
  ELSE IF Lt(d_v, 0)
  THEN push_at_speed_step(b, force_lim, force_incr, accel_now,
         IF d_v > -max_accel /\ Abs(b.cur_spd) >= BREAKAWAY_THRESH
         THEN d_v ELSE -max_accel)
  ELSE push_at_speed_force(b, force_lim, b.last_force)

\* The bp_state_t after push_at_speed.
push_at_speed_bp(b, targ_speed, max_accel, force_lim) ==
  push_at_speed_dv(b, force_lim, MulDiv(force_lim \div 10, b.d_t, 1000),
    RDiv((b.cur_spd - b.last_spd) * 10000, b.d_t),
    IF Abs(b.cur_spd) < BREAKAWAY_THRESH THEN max_accel * 100
    ELSE max_accel,
    IF targ_speed = NaN THEN NaN ELSE (targ_speed - b.cur_spd) * 10)

\* The datarefs after push_at_speed: the force of the tick before, pushed
\* along the nosewheel.
push_at_speed_drs(b, d) ==
  [d EXCEPT
     !.axial_force = @ + MulDiv(b.last_force, Cos(d.tire_steer_cmd), One),
     !.rot_force_N = @ - MulDiv(-MulDiv(b.last_force, Sin(d.tire_steer_cmd),
                                        One),
                                b.acf.nw_z, Metre)]

push_at_speed(b, d, targ_speed, max_accel) ==
  [bp |-> push_at_speed_bp(b, targ_speed, max_accel,
                           MulDiv(FORCE_PER_TON, b.acf.mass, 1000)),
   drs |-> push_at_speed_drs(b, d)]

\* The point `c' to keep on the line: two wheelbases along the centerline.
straight_run_c(b, speed) ==
  vect2_add(b.cur_pos,
            vect2_set_abs(hdg2dir(b.cur_hdg),
                          2 * (IF speed > 0 THEN b.acf.wheelbase
                               ELSE -b.acf.wheelbase)))

\* Our position projected onto the ideal straight line.
straight_run_align_s(b, s, dir_v) ==
  vect2_add(s, vect2_scmul(dir_v,
                           vect2_dotprod(vect2_sub(b.cur_pos, s), dir_v)))

\* straight_run from mis_hdg on; steering works in reverse when pushing
\* back.
straight_run_steer(b, d, speed, mis_hdg) ==
  push_at_speed(b,
    turn_nosewheel(b, d, IF speed > 0 THEN Neg(mis_hdg) ELSE mis_hdg,
                   STRAIGHT_STEER_RATE),
    speed, STRAIGHT_ACCEL)

bp_straight_run(b, d, s, hdg, speed) ==
  straight_run_steer(b, d, speed,
    rel_hdg(hdg, dir2hdg(vect2_sub(straight_run_align_s(b, s, hdg2dir(hdg)),
                                   straight_run_c(b, speed)))))

\* turn_run from mis_hdg on: slow down to TURN_SPEED near maximum turn
\* deflection.
turn_run_steer(b, d, backward, mis_hdg) ==
  push_at_speed(b, turn_nosewheel(b, d, mis_hdg, TURN_STEER_RATE),
    IF mis_hdg = NaN THEN NaN
    ELSE (IF backward THEN -1 ELSE 1) *
         (TURN_SPEED + MulDiv(STRAIGHT_SPEED - TURN_SPEED, Abs(mis_hdg),
                              b.acf.max_nw_angle)),
    TURN_ACCEL)

\* turn_run from the points on: `r' on the arc, p1 ahead of it along the
\* arc, p2 two wheelbases along the centerline.
turn_run_points(b, d, backward, r, p1, p2) ==
  turn_run_steer(b, d, backward,
    IF backward
    THEN Neg(rel_hdg(dir2hdg(vect2_sub(r, p2)), dir2hdg(vect2_sub(r, p1))))
    ELSE rel_hdg(dir2hdg(vect2_sub(r, p2)), dir2hdg(vect2_sub(r, p1))))

\* turn_run from the radial c2r on.
turn_run_radial(b, d, c, right, backward, c2r) ==
  turn_run_points(b, d, backward, vect2_add(c, c2r),
    vect2_add(vect2_add(c, c2r),
              vect2_norm(c2r, IF ~backward THEN right ELSE ~right)),
    vect2_add(b.cur_pos,
              vect2_set_abs(hdg2dir(b.cur_hdg),
                            2 * (IF ~backward THEN b.acf.wheelbase
                                 ELSE -b.acf.wheelbase))))

\* turn_run from d_radius on.
turn_run_off(b, d, c, radius, right, backward, d_radius) ==
  \* Don't turn the nosewheel if we're traveling in the wrong direction
  IF (~backward /\ b.cur_spd < 0) \/ (backward /\ b.cur_spd > 0) \/
     \* We're inside the turn radius, straighten out to catch up
     d_radius < 0
  THEN push_at_speed(b, turn_nosewheel(b, d, 0, TURN_STEER_RATE),
                     STRAIGHT_SPEED * (IF backward THEN -1 ELSE 1),
                     TURN_ACCEL)
  ELSE turn_run_radial(b, d, c, right, backward,
                       vect2_set_abs(vect2_sub(b.cur_pos, c), radius))

bp_turn_run(b, d, c, radius, right, backward) ==
  turn_run_off(b, d, c, radius, right, backward,
    vect2_abs(vect2_sub(
      vect2_add(b.cur_pos,
                vect2_set_abs(vect2_neg(hdg2dir(b.cur_hdg)), b.acf.main_z)),
      c)) - radius)

\* bp_start: [started, spoken] afterwards.
bp_start(b, started, spoken) ==
  IF started THEN [started |-> started, spoken |-> spoken]
  ELSE IF list_head(b.segs) = NULL
  THEN [started |-> started, spoken |-> "Please first start the camera"]
  ELSE [started |-> TRUE, spoken |-> spoken]

\* bp_stop: the bp_state_t afterwards.
bp_stop(b, started) ==
  IF ~started THEN b
  \* Delete all pushback segments, that'll stop us
  ELSE [b EXCEPT !.segs = << >>]

\* bp_gather: the bp_state_t with the simulator's datarefs read in.
bp_gather(b, d) ==
  [b EXCEPT !.cur_pos = VECT2(d.local_x, -d.local_z),
            !.cur_hdg = d.hdg,
            !.cur_t = d.sim_time,
            !.cur_spd = vect2_dotprod(VECT2(d.vx, -d.vz), hdg2dir(d.hdg))]

\* A brake test that looks at the pedals and not at the parking brake.
bp_run_brakes_pedals_only(d) ==
  d.lbrake > BRAKE_PEDAL_THRESH \/ d.rbrake > BRAKE_PEDAL_THRESH

\* Pilot pressed brake pedals or set parking brake
bp_run_brakes(d) ==
  d.lbrake > BRAKE_PEDAL_THRESH \/ d.rbrake > BRAKE_PEDAL_THRESH \/
  d.pbrake # 0

\* bp_run's loop once it has stopped on the head segment (seg != NULL).
bp_run_on(r) == [bp |-> r.bp, drs |-> r.drs, seg |-> 1, last |-> TRUE]

\* bp_run's while loop: [bp, drs, seg, last] when it is left, seg being
\* NULL when the list ran empty.
RECURSIVE bp_run_loop(_, _, _)
bp_run_loop(b, d, last) ==
  IF list_head(b.segs) = NULL
  THEN [bp |-> b, drs |-> d, seg |-> NULL, last |-> last]
  ELSE IF bp_run_brakes(d)
  THEN bp_run_on([bp |-> b, drs |-> d])
  ELSE IF b.segs[1].type = SEG_TYPE_STRAIGHT
  THEN IF vect2_abs(vect2_sub(b.cur_pos, b.segs[1].start_pos)) >=
          b.segs[1].len
       THEN bp_run_loop([b EXCEPT !.segs = list_remove(@, 1)], d, TRUE)
       ELSE IF ~b.segs[1].backward
       THEN bp_run_on(bp_straight_run(b, d, b.segs[1].start_pos,
                        normalize_hdg(-b.segs[1].start_hdg), STRAIGHT_SPEED))
       ELSE bp_run_on(bp_straight_run(b, d, b.segs[1].start_pos,
                        b.segs[1].start_hdg, -STRAIGHT_SPEED))
  ELSE IF Lt(fabs(rel_hdg(b.cur_hdg, b.segs[1].end_hdg)),
             TURN_COMPLETE_THRESH)
  THEN bp_run_loop([b EXCEPT !.segs = list_remove(@, 1)], d, TRUE)
  ELSE \* `c' is the center of the turn.
       bp_run_on(bp_turn_run(b, d,
         vect2_add(vect2_set_abs(vect2_norm(hdg2dir(b.segs[1].start_hdg),
                                            b.segs[1].right),
                                 b.segs[1].r),
                   b.segs[1].start_pos),
         b.segs[1].r, b.segs[1].right, b.segs[1].backward))

\* A bp_run that disconnects as soon as the list is empty, parking brake or
\* not.
bp_run_stop_at_once(r, started, spoken) ==
  [bp |-> r.bp, drs |-> [r.drs EXCEPT !.override_steer = 0],
   started |-> FALSE, spoken |-> "Disconnected, have a nice day",
   ret |-> 0]

\* bp_run's last statements, the list being empty and `r' the state after
\* slowing down to a stop: [bp, drs, started, spoken, ret].
bp_run_stop(r, started, spoken) ==
  IF r.drs.pbrake = 0
  THEN [bp |-> r.bp, drs |-> r.drs, started |-> started, spoken |-> spoken,
        ret |-> -1]
  ELSE [bp |-> r.bp, drs |-> [r.drs EXCEPT !.override_steer = 0],
        started |-> FALSE, spoken |-> "Disconnected, have a nice day",
        ret |-> 0]

\* A bp_run that announces the end of the operation whenever it finds the
\* aircraft stopped on an empty list.
bp_run_slow_announcing(r, started, spoken) ==
  IF Abs(r.bp.cur_spd) < SPEED_COMPLETE_THRESH
  THEN bp_run_stop([bp |-> [r.bp EXCEPT !.stopped = TRUE], drs |-> r.drs],
                   started, "Operation complete, set parking brake")
  ELSE bp_run_stop(r, started, spoken)

\* bp_run on an empty list, from the slow-down to a stop on.
bp_run_slow(r, started, spoken) ==
  IF Abs(r.bp.cur_spd) < SPEED_COMPLETE_THRESH /\ ~r.bp.stopped
  THEN bp_run_stop([bp |-> [r.bp EXCEPT !.stopped = TRUE], drs |-> r.drs],
                   started, "Operation complete, set parking brake")
  ELSE bp_run_stop(r, started, spoken)

\* bp_run after its loop, were the empty list pushed on at full speed.
bp_run_end_pushing(b, d, seg, last, started, spoken) ==
  IF seg # NULL
  THEN [bp |-> b, drs |-> d, started |-> started, spoken |-> spoken,
        ret |-> -1]
  ELSE bp_run_slow(
         push_at_speed([b EXCEPT !.stopping = @ \/ last],
                       turn_nosewheel(b, d, 0, STRAIGHT_STEER_RATE),
                       -STRAIGHT_SPEED, STRAIGHT_ACCEL),
         started, spoken)

\* bp_run after its loop, the last_* fields already set.
bp_run_end(b, d, seg, last, started, spoken) ==
  IF seg # NULL
  THEN [bp |-> b, drs |-> d, started |-> started, spoken |-> spoken,
        ret |-> -1]
  ELSE bp_run_slow(
         push_at_speed([b EXCEPT !.stopping = @ \/ last],
                       turn_nosewheel(b, d, 0, STRAIGHT_STEER_RATE),
                       0, STRAIGHT_ACCEL),
         started, spoken)

\* bp_run after its loop `l'.
bp_run_after(l, started, spoken) ==
  bp_run_end([l.bp EXCEPT !.last_pos = l.bp.cur_pos,
                          !.last_hdg = l.bp.cur_hdg,
                          !.last_t = l.bp.cur_t,
                          !.last_spd = l.bp.cur_spd],
             l.drs, l.seg, l.last, started, spoken)

\* A bp_run that takes the pose and speed of a frame for the last ones
\* even when simulation time has not advanced.
bp_run_at_recording(b, d, started, spoken) ==
  IF b.cur_t <= b.last_t
  THEN [bp |-> [b EXCEPT !.last_pos = b.cur_pos, !.last_hdg = b.cur_hdg,
                         !.last_spd = b.cur_spd],
        drs |-> d, started |-> started, spoken |-> spoken, ret |-> 1]
  ELSE bp_run_after(
         bp_run_loop([b EXCEPT !.d_pos = vect2_sub(b.cur_pos, b.last_pos),
                               !.d_hdg = b.cur_hdg - b.last_hdg,
                               !.d_t = b.cur_t - b.last_t],
                     [d EXCEPT !.override_steer = 1], FALSE),
         started, spoken)

\* bp_run with the datarefs gathered in `b'.
bp_run_at(b, d, started, spoken) ==
  IF b.cur_t <= b.last_t
  THEN [bp |-> b, drs |-> d, started |-> started, spoken |-> spoken,
        ret |-> 1]
  ELSE bp_run_after(
         bp_run_loop([b EXCEPT !.d_pos = vect2_sub(b.cur_pos, b.last_pos),
                               !.d_hdg = b.cur_hdg - b.last_hdg,
                               !.d_t = b.cur_t - b.last_t],
                     [d EXCEPT !.override_steer = 1], FALSE),
         started, spoken)

\* bp_run: [bp, drs, started, spoken, ret] afterwards.
bp_run(b, d, started, spoken) == bp_run_at(bp_gather(b, d), d, started, spoken)

\* The segments computed by cam_ctl, the tail marked as placed by the user.
cam_ctl_placed(r) ==
  IF r.ret > 0
  THEN [r.segs EXCEPT ![Len(r.segs)].user_placed = TRUE]
  ELSE r.segs

\* cam_ctl: pred_segs afterwards, for the world position end_pos under the
\* mouse cursor.
cam_ctl(b, d, cursor_hdg, end_pos) ==
  IF list_tail(b.segs) # NULL
  THEN cam_ctl_placed(bp_compute_segs(b.acf, b.segs[list_tail(b.segs)].end_pos,
                        b.segs[list_tail(b.segs)].end_hdg, end_pos,
                        cursor_hdg, << >>))
  ELSE cam_ctl_placed(bp_compute_segs(b.acf, VECT2(d.local_x, -d.local_z),
                        d.hdg, end_pos, cursor_hdg, << >>))

\* fake_win_click on a quick xplm_MouseUp: whatever is in pred_segs is
\* transferred to the tail of the normal segments, in order.
fake_win_click(bp_segs, pred) == bp_segs \o pred

\* How many segments off the tail key_sniffer's loop removes from a list of
\* n segments: those not placed by the user, up to the next one that is.
RECURSIVE key_sniffer_upto(_, _)
key_sniffer_upto(list, n) ==
  IF n # 0 /\ ~list[n].user_placed THEN key_sniffer_upto(list, n - 1) ELSE n

\* A key_sniffer that removes the tail segment and no more.
key_sniffer_tail_only(bp_segs) ==
  IF list_tail(bp_segs) = NULL THEN bp_segs
  ELSE SubSeq(bp_segs, 1, Len(bp_segs) - 1)

\* key_sniffer on the delete key: bp.segs afterwards.
key_sniffer(bp_segs) ==
  IF list_tail(bp_segs) = NULL THEN bp_segs
  ELSE SubSeq(bp_segs, 1, key_sniffer_upto(bp_segs, Len(bp_segs) - 1))

\* fake_win_wheel on the wheel 0: cursor_hdg afterwards.
fake_win_wheel(cursor_hdg, clicks) == normalize_hdg(cursor_hdg + clicks * 2 * Deg)

---------------------------------------------------------------------------
(* State.                                                                  *)

VARIABLES
  veh,           \* the vehicle_t handed to compute_segs and drive_segs
  segs,          \* the caller-owned segment list (list_t of seg_t)
  req,           \* the placement request: start and end pose
  ret,           \* what the last compute_segs call returned ("none" before)
  ret_at,        \* the return statement that returned it
  before,        \* the list as it was when the last compute_segs call began
  calls,         \* how many compute_segs calls were made
  pos,           \* the vehicle_pos_t sampled for the current tick
  last_mis_hdg,  \* the follower's persisted heading-error sample
  out_steer,     \* the caller's steering command variable
  out_speed,     \* the caller's speed command variable
  ticks,         \* how many drive_segs calls were made
  drv,           \* what the last drive_segs call returned (FALSE before)
  head,          \* the head segment the last drive_segs call looked at
  asserted,      \* an ASSERT failed: the program has aborted
  along,         \* how far along the head segment the vehicle is, in steps
  reach,         \* the step on a segment the vehicle gets to, and stays at
  bp,            \* the plugin's bp_state_t, its list bp.segs included
  drs,           \* the simulator's datarefs, as last read or written
  started,       \* the plugin's flag: bp_run is registered as a callback
  cam_inited,    \* the plugin's flag: the pushback camera is up
  pred_segs,     \* the segments predicted for the cursor's pose
  cursor_hdg,    \* the heading of the pose under the cursor
  cursor_world_pos, \* the world position under the cursor
  spoken,        \* the last message given to XPLMSpeakString ("" before)
  bp_run_ret     \* what the last bp_run call returned (0 before)

synthVars == << req, ret, ret_at, before, calls >>

followVars ==
  << pos, last_mis_hdg, out_steer, out_speed, ticks, drv, head, asserted >>

trackVars == << along, reach >>

bpVars ==
  << bp, drs, started, cam_inited, pred_segs, cursor_hdg, cursor_world_pos,
     spoken, bp_run_ret >>

vars == << veh, segs, synthVars, followVars, trackVars, bpVars >>

---------------------------------------------------------------------------
(* Bounds and input sets.                                                  *)

\* Requested end positions lie on a grid of 10 m steps, -MaxCoord..MaxCoord.
MaxCoord == 3

\* How often the same request is handed to compute_segs.
MaxCalls == 2

\* How many ticks the follower is run for.
MaxTicks == 2

\* In how many steps a vehicle driven along a segment gets to its end.
TrackSteps == 4

\* How many segments the plugin's list is let grow to.
MaxSegs == 2

\* How many frames the plugin's flight loop callback is run for.
MaxFrames == 1

\* The frames of a model run of the plugin pushing.
MaxPushFrames == 3

GridStep == 10 * Metre

Grid == { VECT2(i * GridStep, j * GridStep) :
            i \in -MaxCoord..MaxCoord, j \in -MaxCoord..MaxCoord }

\* wheelbase 0.5 m / 60 degrees (the MIN_TURN_RADIUS floor applies),
\* 5 m / 60 degrees, 15 m / 30 degrees.
Vehicles ==
  { [wheelbase |-> 50, max_steer |-> 60 * Deg],
    [wheelbase |-> 5 * Metre, max_steer |-> 60 * Deg],
    [wheelbase |-> 15 * Metre, max_steer |-> 30 * Deg] }

\* Start headings: 0, 0.5, 90, 180, 359.5 and the unnormalized 360 degrees.
StartHdgs == { 0, 5, 90 * Deg, 180 * Deg, 3595, 360 * Deg }

\* End headings: 0, 0.2, 45, 90, 180, 270 and the unnormalized 360 degrees.
EndHdgs == { 0, 2, 45 * Deg, 90 * Deg, 180 * Deg, 270 * Deg, 360 * Deg }

Requests ==
  { [start_pos |-> ZERO_VECT2, start_hdg |-> sh, end_pos |-> ep,
     end_hdg |-> eh] : sh \in StartHdgs, ep \in Grid, eh \in EndHdgs }

\* A segment placed earlier, for a caller's list that is not empty.
EarlierSeg ==
  [calloc_seg EXCEPT !.start_pos = VECT2(0, -GridStep), !.end_pos = ZERO_VECT2,
                     !.len = GridStep]

NoPos == [pos |-> ZERO_VECT2, hdg |-> 0, spd |-> 0]

\* What the caller's out_steer and out_speed hold while nothing has been
\* written to them: no steering or speed command has this value.
Unwritten == 2 * Inf

FollowIdle ==
  /\ pos = NoPos
  /\ last_mis_hdg = 0
  /\ out_steer = Unwritten
  /\ out_speed = Unwritten
  /\ ticks = 0
  /\ drv = FALSE
  /\ head = calloc_seg
  /\ asserted = FALSE
  /\ along = 0
  /\ reach = 0

\* The aircraft: 50 t, nose gear 3.5 m ahead of and main gear 1.5 m behind
\* the reference point, nosewheel steering to 30 degrees.
Acf ==
  [mass |-> 50000, wheelbase |-> 5 * Metre, nw_z |-> -350, main_z |-> 150,
   max_nw_angle |-> 30 * Deg]

\* memset(&bp, 0, sizeof (bp)), and the fields bp_init sets after it.
BpZero ==
  [acf |-> Acf, cur_pos |-> ZERO_VECT2, cur_hdg |-> 0, cur_spd |-> 0,
   cur_t |-> 0, last_pos |-> ZERO_VECT2, last_hdg |-> 0, last_spd |-> 0,
   last_t |-> 0, d_pos |-> ZERO_VECT2, d_hdg |-> 0, d_t |-> 0,
   last_force |-> 0, turn_c_pos |-> NULL_VECT2, stopping |-> FALSE,
   stopped |-> FALSE, segs |-> << >>]

\* The datarefs of an aircraft parked at the origin, heading north, brakes
\* released, one second into the simulation.
DrsParked ==
  [lbrake |-> 0, rbrake |-> 0, pbrake |-> 0, rot_force_N |-> 0,
   axial_force |-> 0, local_x |-> 0, local_z |-> 0, hdg |-> 0, vx |-> 0,
   vz |-> 0, sim_time |-> 1000, tire_steer_cmd |-> 0, override_steer |-> 0]

\* The plugin before bp_init.
BpIdle ==
  /\ bp = BpZero
  /\ drs = DrsParked
  /\ started = FALSE
  /\ cam_inited = FALSE
  /\ pred_segs = << >>
  /\ cursor_hdg = 0
  /\ cursor_world_pos = ZERO_VECT2
  /\ spoken = ""
  /\ bp_run_ret = 0

---------------------------------------------------------------------------
(* The synthesizer under a caller: one request, handed to compute_segs.    *)

InitSynth ==
  /\ veh \in Vehicles
  /\ segs \in { << >>, << EarlierSeg >> }
  /\ req \in Requests
  /\ ret = "none"
  /\ ret_at = "none"
  /\ before = << >>
  /\ calls = 0
  /\ FollowIdle
  /\ BpIdle

\* The caller's variables after a compute_segs call that gave `r'.
ComputeSegsReturns(r) ==
  /\ segs' = r.segs
  /\ ret' = r.ret
  /\ ret_at' = r.at
  /\ before' = segs
  /\ calls' = calls + 1
  /\ UNCHANGED << veh, trackVars, req, followVars, bpVars >>

ComputeSegs ==
  /\ calls < MaxCalls
  /\ ComputeSegsReturns(compute_segs(veh, req.start_pos, req.start_hdg,
                                     req.end_pos, req.end_hdg, segs))

NextSynth == ComputeSegs

SpecSynth == InitSynth /\ [][NextSynth]_vars

---------------------------------------------------------------------------
(* The follower under a caller: a list built by compute_segs, then         *)
(* drive_segs once per tick, with whatever pose the vehicle is sampled at. *)

\* The towed vehicle: wheelbase 5 m, steering limit 60 degrees.
Tug == [wheelbase |-> 5 * Metre, max_steer |-> 60 * Deg]

\* The list after placing the poses of `stops' one after the other from
\* `from': each placement is one compute_segs call.
RECURSIVE Placed(_, _, _, _)
Placed(v, from, stops, list) ==
  IF stops = << >> THEN list
  ELSE Placed(v, Head(stops), Tail(stops),
              compute_segs(v, from.pos, from.hdg, Head(stops).pos,
                           Head(stops).hdg, list).segs)

Pose(x, y, hdg) == [pos |-> VECT2(x * Metre, y * Metre), hdg |-> hdg * Deg]

\* Forward: a straight, a straight long enough for the cruise speed, a
\* straight and a right turn, a right turn and a straight, a left turn.
\* Backward: a straight and a turn.  A backward straight, then forward
\* again; a forward straight, then a backward turn.
Paths ==
  { Placed(Tug, Pose(0, 0, 0), << Pose(0, 10, 0) >>, << >>),
    Placed(Tug, Pose(0, 0, 0), << Pose(0, 60, 0) >>, << >>),
    Placed(Tug, Pose(0, 0, 0), << Pose(20, 30, 90) >>, << >>),
    Placed(Tug, Pose(0, 0, 0), << Pose(30, 20, 90) >>, << >>),
    Placed(Tug, Pose(0, 0, 0), << Pose(-20, 30, 270) >>, << >>),
    Placed(Tug, Pose(0, 0, 0), << Pose(-20, -30, 90) >>, << >>),
    Placed(Tug, Pose(0, 0, 0), << Pose(0, -20, 0), Pose(0, 0, 0) >>, << >>),
    Placed(Tug, Pose(0, 0, 0), << Pose(0, 10, 0), Pose(-20, -20, 90) >>,
           << >>) }

\* Sampled positions: on and off the paths, on and past segment ends.
FollowPositions ==
  { VECT2(0, 0), VECT2(100, 500), VECT2(0, 1000), VECT2(300, 1200),
    VECT2(2000, 3000), VECT2(2100, 3000), VECT2(0, -500), VECT2(0, -2100),
    VECT2(-2000, -3000), VECT2(-2100, 3000) }

FollowHdgs == { 0, 10 * Deg, 90 * Deg, 270 * Deg }

\* Sampled speeds: backward, forward (cm/s).
FollowSpds == { -100, 100 }

FollowPoses ==
  { [pos |-> p, hdg |-> h, spd |-> v] :
      p \in FollowPositions, h \in FollowHdgs, v \in FollowSpds }

\* Tick lengths in milliseconds.
Dts == { 50, 1000 }

InitFollow ==
  /\ veh = Tug
  /\ segs \in Paths
  /\ req = [start_pos |-> ZERO_VECT2, start_hdg |-> 0, end_pos |-> ZERO_VECT2,
            end_hdg |-> 0]
  /\ ret = "none"
  /\ ret_at = "none"
  /\ before = << >>
  /\ calls = 0
  /\ FollowIdle
  /\ BpIdle

\* The caller's variables after a drive_segs call at pose p that gave `r'.
DriveSegsReturns(p, r) ==
  /\ pos' = p
  /\ head' = segs[list_head(segs)]
  /\ segs' = r.segs
  /\ drv' = r.ret
  /\ last_mis_hdg' = r.out.last_mis_hdg
  /\ out_steer' = r.out.steer_out
  /\ out_speed' = r.out.speed_out
  /\ ticks' = ticks + 1
  /\ UNCHANGED << veh, trackVars, synthVars, asserted, bpVars >>

\* One tick: drive_segs on a list that is not empty.
DriveSegs ==
  /\ ~asserted
  /\ ticks < MaxTicks
  /\ segs # << >>
  /\ \E p \in FollowPoses, d_t \in Dts :
       DriveSegsReturns(p, drive_segs(p, veh, segs, MAX_ANG_VEL, last_mis_hdg,
                                      d_t, out_steer, out_speed))

\* A drive_segs that takes an empty list for nothing to drive: it returns
\* TRUE with both commands at zero.
DriveSegsEmptyTolerated ==
  /\ ~asserted
  /\ ticks < MaxTicks
  /\ segs = << >>
  /\ drv' = TRUE
  /\ out_steer' = 0
  /\ out_speed' = 0
  /\ ticks' = ticks + 1
  /\ UNCHANGED << veh, trackVars, segs, synthVars, pos, last_mis_hdg, head,
                  asserted, bpVars >>

\* One tick on an empty list: ASSERT(seg != NULL) fails.
DriveSegsEmpty ==
  /\ ~asserted
  /\ segs = << >>
  /\ asserted' = TRUE
  /\ UNCHANGED << veh, trackVars, segs, synthVars, pos, last_mis_hdg, out_steer,
                  out_speed, ticks, drv, head, bpVars >>

NextFollow == DriveSegs \/ DriveSegsEmpty

SpecFollow == InitFollow /\ [][NextFollow]_vars

---------------------------------------------------------------------------
(* The follower under a vehicle that does as it is told: drive_segs once   *)
(* per tick, the vehicle one step further along the head segment at each   *)
(* tick, until it is at step `reach' of the segment, where it stays.       *)
(* Step TrackSteps of a segment is its end position; a step beyond lies    *)
(* past the end.                                                           *)

\* The centre of a turn's arc: r off the start position, at right angles
\* to the start heading, on the side r off the end position as well.
TrackCentreOn(seg, right) ==
  vect2_add(seg.start_pos,
            vect2_set_abs(vect2_norm(hdg2dir(seg.start_hdg), right), seg.r))

TrackCentre(seg) ==
  IF Abs(vect2_dist(TrackCentreOn(seg, TRUE), seg.end_pos) - seg.r) <=
     Abs(vect2_dist(TrackCentreOn(seg, FALSE), seg.end_pos) - seg.r)
  THEN TrackCentreOn(seg, TRUE)
  ELSE TrackCentreOn(seg, FALSE)

\* The point of the arc about `c' at step k: the radial of the start
\* position swept towards that of the end position.
TrackArc(seg, k, c) ==
  vect2_add(c,
    vect2_set_abs(
      hdg2dir(dir2hdg(vect2_sub(seg.start_pos, c)) +
              RDiv(rel_hdg(dir2hdg(vect2_sub(seg.start_pos, c)),
                           dir2hdg(vect2_sub(seg.end_pos, c))) * k,
                   TrackSteps)),
      seg.r))

\* Where the vehicle is at step k of the segment.
TrackPos(seg, k) ==
  IF k = 0 THEN seg.start_pos
  ELSE IF k = TrackSteps THEN seg.end_pos
  ELSE IF seg.type = SEG_TYPE_STRAIGHT
  THEN vect2_add(seg.start_pos,
                 VECT2(RDiv((seg.end_pos.x - seg.start_pos.x) * k, TrackSteps),
                       RDiv((seg.end_pos.y - seg.start_pos.y) * k, TrackSteps)))
  ELSE TrackArc(seg, k, TrackCentre(seg))

\* The vehicle_pos_t at step k: the heading turns from the start to the end
\* heading, the speed is 1 m/s in the segment's direction of travel.
TrackPose(seg, k) ==
  [pos |-> TrackPos(seg, k),
   hdg |-> normalize_hdg(seg.start_hdg +
             RDiv(rel_hdg(seg.start_hdg, seg.end_hdg) * MIN(k, TrackSteps),
                  TrackSteps)),
   spd |-> IF seg.backward THEN -100 ELSE 100]

InitAdvance ==
  /\ veh = Tug
  /\ segs \in Paths
  /\ req = [start_pos |-> ZERO_VECT2, start_hdg |-> 0, end_pos |-> ZERO_VECT2,
            end_hdg |-> 0]
  /\ ret = "none"
  /\ ret_at = "none"
  /\ before = << >>
  /\ calls = 0
  /\ pos = NoPos
  /\ last_mis_hdg = 0
  /\ out_steer = Unwritten
  /\ out_speed = Unwritten
  /\ ticks = 0
  /\ drv = FALSE
  /\ head = calloc_seg
  /\ asserted = FALSE
  /\ along = 0
  /\ reach \in { TrackSteps, TrackSteps + 1 }
  /\ BpIdle

\* The caller's variables after a drive_segs call at step k of the head
\* segment that gave `r': the vehicle starts at step 0 of the next segment
\* when the head was removed.
AdvanceReturns(k, r) ==
  /\ pos' = TrackPose(segs[list_head(segs)], k)
  /\ head' = segs[list_head(segs)]
  /\ segs' = r.segs
  /\ drv' = r.ret
  /\ last_mis_hdg' = r.out.last_mis_hdg
  /\ out_steer' = r.out.steer_out
  /\ out_speed' = r.out.speed_out
  /\ ticks' = MIN(ticks + 1, MaxTicks)
  /\ along' = IF r.ret THEN k ELSE 0
  /\ UNCHANGED << veh, reach, synthVars, asserted, bpVars >>

\* The vehicle's next step on the head segment, `along' being where the
\* tick before has left it; ticks = 0 before the first tick, which finds
\* the vehicle at step 0.
AdvanceStep ==
  IF ticks = 0 \/ ~drv THEN along ELSE MIN(along + 1, reach)

\* One tick with the vehicle a step further.
Advance ==
  /\ segs # << >>
  /\ \E d_t \in Dts :
       AdvanceReturns(AdvanceStep,
         drive_segs(TrackPose(segs[list_head(segs)], AdvanceStep), veh, segs,
                    MAX_ANG_VEL, last_mis_hdg, d_t, out_steer, out_speed))

NextAdvance == Advance

\* The caller ticks for as long as there are segments.
SpecAdvance == InitAdvance /\ [][NextAdvance]_vars /\ WF_vars(Advance)

---------------------------------------------------------------------------
(* The plugin: the pushback camera is up (bp_cam_init, and bp_init within  *)
(* it, have run); the simulator calls cam_ctl, the click, wheel and key    *)
(* handlers, bp_start, bp_stop and, while an operation is started, bp_run, *)
(* in any order.                                                           *)

\* World positions the cursor is moved over: 20 m straight behind the
\* aircraft, and 10 m behind and 5 m to its left.
CursorPositions == { VECT2(0, -20 * Metre), VECT2(-5 * Metre, -10 * Metre) }

\* Mouse wheel clicks per event: 45 clicks of 2 degrees.
WheelClicks == { 45 }

\* What the simulator presents at a frame.  The aircraft: still where it
\* was parked; 25 m back, moving backward at 1 m/s; 25 m back, turned to
\* the east and still.
FramePoses ==
  { [pos |-> VECT2(0, 0), hdg |-> 0, spd |-> 0],
    [pos |-> VECT2(0, -25 * Metre), hdg |-> 0, spd |-> -100],
    [pos |-> VECT2(0, -25 * Metre), hdg |-> 90 * Deg, spd |-> 0] }

\* The milliseconds since the frame before and the brakes: released, the
\* left pedal pressed half way, the parking brake set.
FrameConds ==
  { [dt |-> 50, lbrake |-> 0, pbrake |-> 0],
    [dt |-> 0, lbrake |-> 0, pbrake |-> 0],
    [dt |-> 50, lbrake |-> 500, pbrake |-> 0],
    [dt |-> 50, lbrake |-> 0, pbrake |-> 1000] }

\* The datarefs `d' as the simulator sets them for a frame with the
\* aircraft at pose p under the conditions c; it zeroes the forces a plugin
\* has applied in the frame before.
Frame(d, p, c) ==
  [d EXCEPT !.local_x = p.pos.x, !.local_z = -p.pos.y, !.hdg = p.hdg,
            !.vx = MulDiv(Sin(p.hdg), p.spd, One),
            !.vz = -MulDiv(Cos(p.hdg), p.spd, One),
            !.sim_time = @ + c.dt,
            !.lbrake = c.lbrake, !.pbrake = c.pbrake,
            !.axial_force = 0, !.rot_force_N = 0]

InitBp ==
  /\ veh = [wheelbase |-> Acf.wheelbase, max_steer |-> Acf.max_nw_angle]
  /\ segs = << >>
  /\ req = [start_pos |-> ZERO_VECT2, start_hdg |-> 0, end_pos |-> ZERO_VECT2,
            end_hdg |-> 0]
  /\ ret = "none"
  /\ ret_at = "none"
  /\ before = << >>
  /\ calls = 0
  /\ FollowIdle
  /\ bp = BpZero
  /\ drs = DrsParked
  /\ started = FALSE
  /\ cam_inited = TRUE
  /\ pred_segs = << >>
  /\ cursor_hdg = DrsParked.hdg
  /\ cursor_world_pos = ZERO_VECT2
  /\ spoken = ""
  /\ bp_run_ret = 0

\* The camera callback, once per frame.  It does nothing when it is losing
\* control or the camera is down, and keeps the old prediction when the
\* cursor would be too far away.
CamCtl ==
  \E losing_control \in BOOLEAN, far \in BOOLEAN, end_pos \in CursorPositions :
    IF losing_control \/ ~cam_inited \/ far
    THEN UNCHANGED vars
    ELSE /\ pred_segs' = cam_ctl(bp, drs, cursor_hdg, end_pos)
         /\ cursor_world_pos' = end_pos
         /\ UNCHANGED << veh, trackVars, segs, synthVars, followVars, bp, drs, started,
                         cam_inited, cursor_hdg, spoken, bp_run_ret >>

\* A quick click: xplm_MouseDown, then xplm_MouseUp within the threshold.
FakeWinClick ==
  /\ Len(bp.segs) + Len(pred_segs) <= MaxSegs
  /\ bp' = [bp EXCEPT !.segs = fake_win_click(@, pred_segs)]
  /\ pred_segs' = << >>
  /\ UNCHANGED << veh, trackVars, segs, synthVars, followVars, drs, started, cam_inited,
                  cursor_hdg, cursor_world_pos, spoken, bp_run_ret >>

FakeWinWheel ==
  \E clicks \in WheelClicks :
    /\ cursor_hdg' = fake_win_wheel(cursor_hdg, clicks)
    /\ UNCHANGED << veh, trackVars, segs, synthVars, followVars, bp, drs, started,
                    cam_inited, pred_segs, cursor_world_pos, spoken,
                    bp_run_ret >>

\* The delete key, pressed without modifiers.
KeySniffer ==
  /\ bp' = [bp EXCEPT !.segs = key_sniffer(@)]
  /\ UNCHANGED << veh, trackVars, segs, synthVars, followVars, drs, started, cam_inited,
                  pred_segs, cursor_hdg, cursor_world_pos, spoken,
                  bp_run_ret >>

BpStart ==
  /\ started' = bp_start(bp, started, spoken).started
  /\ spoken' = bp_start(bp, started, spoken).spoken
  /\ UNCHANGED << veh, trackVars, segs, synthVars, followVars, bp, drs, cam_inited,
                  pred_segs, cursor_hdg, cursor_world_pos, bp_run_ret >>

BpStop ==
  /\ bp' = bp_stop(bp, started)
  /\ UNCHANGED << veh, trackVars, segs, synthVars, followVars, drs, started, cam_inited,
                  pred_segs, cursor_hdg, cursor_world_pos, spoken,
                  bp_run_ret >>

\* The plugin's variables after a bp_run call that gave `r'.
BpRunReturns(r) ==
  /\ bp' = r.bp
  /\ drs' = r.drs
  /\ started' = r.started
  /\ spoken' = r.spoken
  /\ bp_run_ret' = r.ret
  /\ ticks' = ticks + 1
  /\ UNCHANGED << veh, trackVars, segs, synthVars, pos, last_mis_hdg, out_steer,
                  out_speed, drv, head, asserted, cam_inited, pred_segs,
                  cursor_hdg, cursor_world_pos >>

\* The flight loop callback, at a frame of the simulator.
BpRun ==
  /\ started
  /\ ticks < MaxFrames
  /\ \E p \in FramePoses, c \in FrameConds :
       BpRunReturns(bp_run(bp, Frame(drs, p, c), started, spoken))

NextBp ==
  \/ CamCtl
  \/ FakeWinClick
  \/ FakeWinWheel
  \/ KeySniffer
  \/ BpStart
  \/ BpStop
  \/ BpRun

SpecBp == InitBp /\ [][NextBp]_vars

---------------------------------------------------------------------------
(* The plugin pushing: bp_start has started it on a planned route, with    *)
(* the camera up and a further placement predicted; the simulator calls    *)
(* bp_run at its frames, and between any two of them there may be a click, *)
(* bp_stop, bp_start, or bp_fini and bp_init.                              *)

\* The routes planned from the parking position with the camera: to each
\* cursor position, the heading left alone or turned to the east.
Routes ==
  { cam_ctl(BpZero, DrsParked, h, p) :
      h \in { 0, 90 * Deg }, p \in CursorPositions } \ { << >> }

\* Where the cursor is left while the aircraft is pushed: 40 m straight
\* behind the parking position.
CursorLeft == VECT2(0, -40 * Metre)

InitPush ==
  /\ veh = [wheelbase |-> Acf.wheelbase, max_steer |-> Acf.max_nw_angle]
  /\ segs = << >>
  /\ req = [start_pos |-> ZERO_VECT2, start_hdg |-> 0, end_pos |-> ZERO_VECT2,
            end_hdg |-> 0]
  /\ ret = "none"
  /\ ret_at = "none"
  /\ before = << >>
  /\ calls = 0
  /\ FollowIdle
  /\ \E route \in Routes : bp = [BpZero EXCEPT !.segs = route]
  /\ drs = DrsParked
  /\ started = TRUE
  /\ cam_inited = TRUE
  /\ pred_segs = cam_ctl(bp, DrsParked, 0, CursorLeft)
  /\ cursor_hdg = 0
  /\ cursor_world_pos = CursorLeft
  /\ spoken = ""
  /\ bp_run_ret = -1

\* The flight loop callback at a frame, for as long as the plugin is started.
PushFrame ==
  /\ started
  /\ ticks < MaxPushFrames
  /\ \E p \in FramePoses, c \in FrameConds :
       BpRunReturns(bp_run(bp, Frame(drs, p, c), started, spoken))

\* The stop command between two frames.
PushStop ==
  /\ bp' = bp_stop(bp, started)
  /\ UNCHANGED << veh, trackVars, segs, synthVars, followVars, drs, started,
                  cam_inited, pred_segs, cursor_hdg, cursor_world_pos, spoken,
                  bp_run_ret >>

\* bp_fini followed by bp_init: the operation is torn down, the steering
\* override released and the bp_state_t zeroed and set up again.
BpReinit ==
  /\ bp' = BpZero
  /\ drs' = [drs EXCEPT !.override_steer = 0]
  /\ started' = FALSE
  /\ UNCHANGED << veh, trackVars, segs, synthVars, followVars, cam_inited,
                  pred_segs, cursor_hdg, cursor_world_pos, spoken,
                  bp_run_ret >>

NextPush ==
  \/ PushFrame
  \/ PushStop
  \/ FakeWinClick
  \/ BpStart
  \/ BpReinit

SpecPush == InitPush /\ [][NextPush]_vars

---------------------------------------------------------------------------
(* Properties of the synthesizer (SpecSynth).                              *)

Called == calls > 0

\* The indices of the segments the last compute_segs call appended.
Emitted == (Len(before) + 1)..Len(segs)

InRange(hdg) == 0 <= hdg /\ hdg < 360 * Deg

\* C3: when compute_segs returns 2, the first appended segment's end
\* position and end heading equal the second appended segment's start
\* position and start heading, in either order of emission.
C3_PairChained ==
  (Called /\ ret = 2) =>
    LET s1 == segs[Len(segs) - 1]
        s2 == segs[Len(segs)]
    IN  s1.end_pos = s2.start_pos /\ s1.end_hdg = s2.start_hdg

\* A Turn followed by a Straight of positive length was emitted.
C3_TurnThenStraight ==
  /\ Called /\ ret = 2
  /\ segs[Len(segs) - 1].type = SEG_TYPE_TURN
  /\ segs[Len(segs)].type = SEG_TYPE_STRAIGHT
  /\ segs[Len(segs)].len > 0

\* C5: a request with distinct positions whose headings differ by less
\* than 1 degree, as a shortest angular difference, yields exactly one
\* Straight segment from the start position, of the projected length, to
\* the point that far along the start heading (or its reverse).
C5_SubDegreeIsOneStraight ==
  (/\ Called
   /\ req.start_pos # req.end_pos
   /\ InRange(req.start_hdg) /\ InRange(req.end_hdg)
   /\ fabs(rel_hdg(req.start_hdg, req.end_hdg)) < 1 * Deg) =>
    /\ ret = 1
    /\ Len(segs) = Len(before) + 1
    /\ LET s   == segs[Len(segs)]
           dir == hdg2dir(req.start_hdg +
                          (IF s.backward THEN 180 * Deg ELSE 0))
           len == vect2_dotprod(dir, vect2_sub(req.end_pos, req.start_pos))
       IN  /\ s.type = SEG_TYPE_STRAIGHT
           /\ s.start_pos = req.start_pos
           /\ s.len = len
           /\ s.end_pos = vect2_add(req.start_pos, vect2_set_abs(dir, len))

\* C6: with start_pos equal to end_pos compute_segs returns 0 when the
\* headings are equal and -1 when they differ, appends nothing, and does
\* the same when called again with the same arguments.
C6_OverlapResult ==
  (Called /\ req.start_pos = req.end_pos) =>
    /\ segs = before
    /\ ret = (IF req.start_hdg = req.end_hdg THEN 0 ELSE -1)

\* The same overlapping request with differing headings failed twice.
C6_RepeatedOverlap ==
  /\ calls >= 2
  /\ req.start_pos = req.end_pos
  /\ req.start_hdg # req.end_hdg
  /\ ret = -1
  /\ segs = before

\* C7: after a call the list is its content before the call followed by
\* exactly max(ret, 0) new segments, ret being -1, 0, 1 or 2; a failing
\* call leaves the list unchanged.
C7_AppendOnly ==
  Called =>
    /\ ret \in {-1, 0, 1, 2}
    /\ Len(segs) = Len(before) + (IF ret > 0 THEN ret ELSE 0)
    /\ SubSeq(segs, 1, Len(before)) = before

\* A request failed for its radius on a list that was not empty.
C7_FailureKeepsList ==
  /\ Called /\ ret = -1 /\ ret_at = "radius"
  /\ before # << >>
  /\ segs = before

\* C8 (as the code has it): 0 is returned exactly for 'no motion needed'
\* (equal positions and equal headings); an infeasible request (radius too
\* tight) and a geometrically degenerate one (no crossing of the pose
\* lines, or equal positions with differing headings) both return -1.
C8_ZeroOnlyForNoMotion ==
  Called =>
    /\ (ret = 0) <=>
         (req.start_pos = req.end_pos /\ req.start_hdg = req.end_hdg)
    /\ ret_at \in {"radius", "no_isect"} => ret = -1
    /\ (ret_at = "overlap" /\ req.start_hdg # req.end_hdg) => ret = -1

\* An infeasible request returned what a degenerate one returns.
C8_InfeasibleReturned ==
  /\ Called /\ ret_at = "radius" /\ ret = -1

\* C8 (as stated): the return value tells 'infeasible' from 'geometrically
\* degenerate': a request refused for its radius does not return what the
\* same caller gets for equal positions with differing headings.
C8_InfeasibleUnlikeDegenerate ==
  (Called /\ ret_at = "radius") =>
    ret # compute_segs(veh, req.start_pos, req.start_hdg, req.start_pos,
                       req.start_hdg + 90 * Deg, segs).ret

\* C9 (as the code has it): the heading fields of every emitted segment
\* are copies of the start_hdg and end_hdg compute_segs was called with,
\* so they are inside [0, 360) when both of those are.
C9_HeadingsCopied ==
  Called =>
    \A i \in Emitted :
      /\ segs[i].start_hdg \in {req.start_hdg, req.end_hdg}
      /\ segs[i].end_hdg \in {req.start_hdg, req.end_hdg}
      /\ (InRange(req.start_hdg) /\ InRange(req.end_hdg)) =>
           (InRange(segs[i].start_hdg) /\ InRange(segs[i].end_hdg))

\* A backward pair was emitted for headings inside [0, 360).
C9_BackwardPair ==
  /\ Called /\ ret = 2
  /\ InRange(req.start_hdg) /\ InRange(req.end_hdg)
  /\ segs[Len(segs)].backward

\* C9 (as stated): whatever start_hdg and end_hdg compute_segs is called
\* with, the heading fields of every emitted segment are inside [0, 360).
C9_HeadingsNormalized ==
  Called =>
    \A i \in Emitted :
      InRange(segs[i].start_hdg) /\ InRange(segs[i].end_hdg)

---------------------------------------------------------------------------
(* Properties of the follower (SpecFollow).                                *)

Ticked == ticks > 0

\* C1: whenever drive_segs returns TRUE, the steering angle it has written
\* to out_steer is within the vehicle's max_steer in absolute value.
C1_SteerWithinMaxSteer ==
  (Ticked /\ drv) => Abs(out_steer) <= veh.max_steer

\* C11: a drive_segs call adds no segment and removes at most one: it
\* returns FALSE exactly when it has removed the head segment, and that
\* alone, and TRUE exactly when it has left the list as it was; the list
\* never grows from one tick to the next.
C11_HeadOrNothingRemoved ==
  [][/\ Len(segs') <= Len(segs)
     /\ ticks' # ticks =>
          /\ ~drv' <=> (segs # << >> /\ segs' = Tail(segs))
          /\ drv' <=> segs' = segs]_vars

\* A call has removed the head of a list of two segments: the second one
\* is left.
C11_HeadOfTwoRemoved ==
  /\ Ticked /\ ~drv
  /\ \E l \in Paths : Len(l) = 2 /\ head = l[1] /\ segs = << l[2] >>

\* C12: every drive_segs call on a list that is not empty writes a
\* steering command to out_steer and a speed command to out_speed, the call
\* that completes and removes the head segment included.
C12_CommandsAlwaysWritten ==
  Ticked => (out_steer # Unwritten /\ out_speed # Unwritten)

\* C12 as amended: a call that tracks the head segment (returns TRUE) writes
\* both commands; the call that removes the head segment writes neither, nor
\* last_mis_hdg.
C12_CommandsWrittenWhenTracking ==
  /\ []((Ticked /\ drv) => (out_steer # Unwritten /\ out_speed # Unwritten))
  /\ [][(ticks' # ticks /\ ~drv') =>
          UNCHANGED << out_steer, out_speed, last_mis_hdg >>]_vars

\* A call has removed the head segment after a call that had tracked it
\* and written both commands, which are still there.
C12_RemovalAfterCommands ==
  /\ ticks = 2 /\ ~drv
  /\ out_steer # Unwritten /\ out_speed # Unwritten

\* The speed drive_segs has planned for the Turn `head' it went on to
\* track: its call of turn_run_speed.
PlannedTurnSpeed ==
  turn_run_speed(segs, Abs(fabs(rel_hdg(pos.hdg, head.end_hdg))), head.r,
                 head.backward, MAX_ANG_VEL, list_next(segs, list_head(segs)))

\* C13: the speed turn_run_speed plans for a Turn segment gives an angular
\* velocity speed / radius, in degrees per second, of at most MAX_ANG_VEL,
\* whatever follows the Turn and whatever the pose; to the cm/s the
\* planned speed is rounded to.
C13_TurnAngVelBounded ==
  (Ticked /\ drv /\ head.type = SEG_TYPE_TURN) =>
    AngVel(PlannedTurnSpeed - 1, head.r) <= MAX_ANG_VEL

\* C14: when drive_segs tracks a segment (returns TRUE), the speed it
\* commands is strictly negative for a backward head segment and strictly
\* positive for a forward one, whatever the pose, the vehicle's speed and
\* the segments that follow.
C14_SpeedSignIsDirection ==
  (Ticked /\ drv) => IF head.backward THEN out_speed < 0 ELSE out_speed > 0

\* C15: when drive_segs tracks a segment, the magnitude of the speed it
\* commands is at most the cruise speed of the head segment's direction of
\* travel, FAST_SPEED forward and NORMAL_SPEED backward, the lower of the
\* two.
C15_SpeedWithinCruise ==
  /\ NORMAL_SPEED < FAST_SPEED
  /\ (Ticked /\ drv) =>
       Abs(out_speed) <= IF head.backward THEN NORMAL_SPEED ELSE FAST_SPEED

\* A backward Turn is tracked while the vehicle still rolls forward.
C14_BackwardTurnTracked ==
  /\ Ticked /\ drv
  /\ head.type = SEG_TYPE_TURN /\ head.backward
  /\ pos.spd > 0 /\ out_speed < 0

\* A forward Straight is tracked at the cruise speed, with more left of it
\* than it takes to slow down from there.
C15_ForwardAtCruise ==
  /\ Ticked /\ drv
  /\ head.type = SEG_TYPE_STRAIGHT /\ ~head.backward
  /\ out_speed = FAST_SPEED

\* C16: drive_segs on an empty list fails its assertion, which is fatal:
\* the call returns no value and writes none of out_steer, out_speed and
\* last_mis_hdg, and nothing runs after it.
C16_EmptyListAsserts ==
  [][/\ ~asserted
     /\ segs = << >> =>
          /\ asserted'
          /\ UNCHANGED << segs, drv, ticks, out_steer, out_speed,
                          last_mis_hdg >>]_vars

\* drive_segs was called on a list its earlier calls had emptied.
C16_AssertionFailed == asserted /\ Ticked /\ segs = << >>

\* The commands and the heading error this call has written.
Written ==
  [steer_out |-> out_steer', speed_out |-> out_speed',
   last_mis_hdg |-> last_mis_hdg']

\* The heading of the line a Straight head is tracked along.
StraightLineHdg ==
  IF head'.backward THEN normalize_hdg(head'.start_hdg + 180 * Deg)
  ELSE head'.start_hdg

\* The distance left on the Straight head.
StraightLeft == head'.len - vect2_dist(pos'.pos, head'.start_pos)

\* C18: a Straight head is removed if and only if the straight-line
\* distance from the vehicle's position to the segment's start position is
\* at least the segment's length; otherwise it stays at the head and the
\* commands are those of drive_on_line for the line through start_pos along
\* the start heading, reversed by 180 degrees when the segment is backward.
C18_StraightRemovedAtLength ==
  [][(ticks' # ticks /\ head'.type = SEG_TYPE_STRAIGHT) =>
       /\ ~drv' <=> vect2_dist(pos'.pos, head'.start_pos) >= head'.len
       /\ drv' =>
            /\ segs' = segs
            /\ \E d_t \in Dts :
                 Written =
                   drive_on_line(pos', veh, head'.start_pos, StraightLineHdg,
                     (IF head'.backward THEN -1 ELSE 1) *
                       straight_run_speed(segs, StraightLeft, head'.backward,
                         MAX_ANG_VEL, list_next(segs, list_head(segs))),
                     veh.wheelbase \div 2, 15, last_mis_hdg, d_t, out_steer,
                     out_speed)]_vars

\* A backward Straight tracked by a vehicle moving backward off its line,
\* short of its length.
C18_BackwardStraightTracked ==
  /\ Ticked /\ drv
  /\ head.type = SEG_TYPE_STRAIGHT /\ head.backward
  /\ pos.spd < 0 /\ out_steer # 0
  /\ pos.pos # head.start_pos

\* The heading of travel at the end of the Turn head.
TurnEndHdg ==
  IF head.backward THEN normalize_hdg(head.end_hdg + 180 * Deg)
  ELSE head.end_hdg

\* The bearing from the end position of the Turn head to the vehicle.
TurnEndBrg == dir2hdg(vect2_sub(pos.pos, head.end_pos))

\* C19: a Turn head is removed if and only if the bearing from the
\* segment's end position to the vehicle's position is within 90 degrees of
\* the segment's end heading (reversed when backward); the vehicle's
\* heading has no part in it.
C19_TurnRemovedPastEnd ==
  (Ticked /\ head.type = SEG_TYPE_TURN) =>
    (~drv <=> Le(fabs(rel_hdg(TurnEndHdg, TurnEndBrg)), 90 * Deg))

\* A Turn removed with the vehicle past its end position and heading the
\* other way than its end heading.
C19_TurnRemovedHeadingAway ==
  /\ Ticked /\ ~drv
  /\ head.type = SEG_TYPE_TURN
  /\ pos.pos # head.end_pos
  /\ Abs(rel_hdg(pos.hdg, head.end_hdg)) >= 90 * Deg

\* The centre turn_run uses for the Turn head: from the start heading as
\* turn_run takes it, turned around for a backward turn.
TurnCentreUsed ==
  turn_run_c(head, IF ~head.backward THEN head.start_hdg
                   ELSE normalize_hdg(head.start_hdg + 180 * Deg))

\* The point at the distance r from the start position of the Turn head,
\* at right angle to its start heading: on the right if its right flag is
\* set, on the left otherwise.
TurnCentreFlagged ==
  vect2_add(head.start_pos,
            vect2_set_abs(vect2_norm(hdg2dir(head.start_hdg), head.right),
                          head.r))

\* C20: for every Turn the follower tracks, forward or backward, the turn
\* centre it uses lies at the distance r at right angle to the segment's
\* start heading, on the right of the start heading if the segment's right
\* flag is set and on the left otherwise.
C20_CentreOnFlaggedSide ==
  (Ticked /\ drv /\ head.type = SEG_TYPE_TURN) =>
    TurnCentreUsed = TurnCentreFlagged

\* The speed this call asks drive_on_line for: the speed planned for the
\* head, negative when the head is backward.
RequestedSpeed ==
  (IF head'.backward THEN -1 ELSE 1) *
    (IF head'.type = SEG_TYPE_STRAIGHT
     THEN straight_run_speed(segs, StraightLeft, head'.backward, MAX_ANG_VEL,
                             list_next(segs, list_head(segs)))
     ELSE turn_run_speed(segs, Abs(fabs(rel_hdg(pos'.hdg, head'.end_hdg))),
                         head'.r, head'.backward, MAX_ANG_VEL,
                         list_next(segs, list_head(segs))))

\* The vehicle's speed in this call has the opposite sign to the one asked
\* for.
Opposed ==
  \/ RequestedSpeed < 0 /\ pos'.spd > 0
  \/ RequestedSpeed > 0 /\ pos'.spd < 0

\* C23: whenever the vehicle's actual speed has the opposite sign to the
\* requested travel speed, drive_on_line outputs a steering of exactly 0 and
\* the requested speed unchanged, and leaves last_mis_hdg as it was.
C23_OpposedNeutralizesSteering ==
  [][(ticks' # ticks /\ drv' /\ Opposed) =>
       /\ out_steer' = 0
       /\ out_speed' = RequestedSpeed
       /\ last_mis_hdg' = last_mis_hdg]_vars

\* A forward Straight tracked off its line, leaving a heading error sample,
\* and then again with the vehicle rolling backward: the steering is
\* neutral and the sample is still there.
C23_SampleKeptWhileOpposed ==
  /\ ticks = 2 /\ drv
  /\ ~head.backward /\ pos.spd < 0
  /\ out_steer = 0 /\ out_speed > 0
  /\ last_mis_hdg # 0

---------------------------------------------------------------------------
(* Properties of the follower under an obedient vehicle (SpecAdvance).     *)

---------------------------------------------------------------------------
(* Properties of the plugin (SpecBp).                                      *)

\* Segment i of `list' starts at the pose segment i - 1 ends at.
Chained(list, i) ==
  /\ list[i].start_pos = list[i - 1].end_pos
  /\ list[i].start_hdg = list[i - 1].end_hdg

\* C2: in bp.segs every segment but the first starts at the end position
\* and end heading of the segment before it, whatever the order of cam_ctl,
\* clicks, undos and bp_run ticks.
C2_SegsContinuous == \A i \in 2..Len(bp.segs) : Chained(bp.segs, i)

\* The minimum realizable radius max(tan(90 - 0.9 * max_nw_angle) *
\* wheelbase, MIN_TURN_RADIUS) of the plugin's aircraft.
AcfMinRadius ==
  min_radius([wheelbase |-> bp.acf.wheelbase,
              max_steer |-> bp.acf.max_nw_angle])

\* C4: every Turn segment compute_segs emits has a radius of at least the
\* vehicle's minimum realizable radius; here for the plugin's compute_segs,
\* whose segments are those of pred_segs and bp.segs.
C4_TurnsRealizable ==
  \A i \in 1..Len(bp.segs \o pred_segs) :
    (bp.segs \o pred_segs)[i].type = SEG_TYPE_TURN =>
      (bp.segs \o pred_segs)[i].r >= AcfMinRadius

\* This step changes bp.segs with no operation started and the prediction
\* left alone: of the handlers only key_sniffer does that.
UndoStep == ~started /\ bp'.segs # bp.segs /\ pred_segs' = pred_segs

\* The segments kept by this step are the first n of bp.segs, and the ones
\* it removed are the tail, placed by the user, and the segments directly
\* before it that are not, down to a segment n that is.
UndoneTo(n) ==
  /\ n < Len(bp.segs)
  /\ bp'.segs = SubSeq(bp.segs, 1, n)
  /\ bp.segs[Len(bp.segs)].user_placed
  /\ \A i \in (n + 1)..(Len(bp.segs) - 1) : ~bp.segs[i].user_placed
  /\ n # 0 => bp.segs[n].user_placed

C22_UndoKeepsDrivenHead ==
  (started /\ cam_inited /\ Ticked /\ bp.segs # << >>) =>
    /\ key_sniffer(bp.segs) # << >>
    /\ Head(key_sniffer(bp.segs)) = Head(bp.segs)

---------------------------------------------------------------------------
(* Properties of the plugin pushing (SpecPush).                            *)

\* This step is a bp_run tick entered with the segment list emptied by
\* bp_stop: a list that ran empty in bp_run's loop has set bp.stopping.
TickAfterCancel == ticks' # ticks /\ bp.segs = << >> /\ ~bp.stopping

\* This bp_run tick has commanded a stop: the nosewheel is where
\* turn_nosewheel(0, STRAIGHT_STEER_RATE) puts it and the force is where
\* push_at_speed(0, STRAIGHT_ACCEL) puts it, from the command and the force
\* of the tick before.
StopCommanded ==
  /\ drs'.tire_steer_cmd =
       turn_nosewheel(bp', drs, 0, STRAIGHT_STEER_RATE).tire_steer_cmd
  /\ bp'.last_force =
       push_at_speed([bp' EXCEPT !.last_force = bp.last_force], drs', 0,
                     STRAIGHT_ACCEL).bp.last_force

\* This bp_run tick has commanded nothing and asks to be called again.
NothingCommanded ==
  /\ drs'.tire_steer_cmd = drs.tire_steer_cmd
  /\ drs'.override_steer = drs.override_steer
  /\ bp'.last_force = bp.last_force
  /\ bp_run_ret' = 1

\* C17 as stated: every bp_run tick on a segment list emptied by bp_stop
\* dispatches no segment (the list stays empty and the tick does not fail)
\* and commands the nosewheel toward 0 and a target speed of 0.
C17_EveryTickCommandsStop ==
  [][TickAfterCancel =>
       /\ bp'.segs = << >>
       /\ bp_run_ret' \in { -1, 0, 1 }
       /\ StopCommanded]_vars

\* C17, amended: every bp_run tick on a segment list emptied by bp_stop
\* dispatches no segment; it commands the nosewheel toward 0 and a target
\* speed of 0 if simulation time has advanced since the tick before, and
\* commands nothing at all if it has not.
C17_StopCommandedWhenTimeAdvances ==
  [][TickAfterCancel =>
       /\ bp'.segs = << >>
       /\ bp_run_ret' \in { -1, 0, 1 }
       /\ IF drs'.sim_time > bp.last_t
          THEN StopCommanded /\ bp_run_ret' \in { -1, 0 }
          ELSE NothingCommanded]_vars

\* bp_stop has emptied the list while the aircraft was moving with the
\* nosewheel turned (the list did not run empty: bp.stopping is unset), and
\* a tick since then has steered the nosewheel back and brought the
\* aircraft to a stop.
C17_StoppedAfterCancel ==
  /\ Ticked /\ bp.segs = << >> /\ ~bp.stopping
  /\ bp.stopped /\ bp_run_ret = -1
  /\ bp.last_force # 0
  /\ drs.override_steer = 1

\* C24: bp_run ends a started operation (started unset, the steering
\* override released, the callback returning 0) only in a tick where the
\* segment list is empty and the parking brake is set; a set parking brake
\* while segments remain, or an empty list with the parking brake released,
\* keeps the operation started.
C24_EndedOnlyEmptyAndBraked ==
  [][ticks' # ticks =>
       /\ ~started' <=> bp_run_ret' = 0
       /\ ~started' =>
            /\ bp.segs = << >> /\ bp'.segs = << >>
            /\ drs'.pbrake # 0
            /\ drs'.override_steer = 0
       /\ (bp.segs # << >> /\ drs'.pbrake # 0) =>
            started' /\ bp'.segs = bp.segs
       /\ (bp'.segs = << >> /\ drs'.pbrake = 0) => started']_vars

\* The list ran empty in a tick with the parking brake released, and a
\* later tick with the parking brake set has ended the operation.
C24_EndedAfterCompletion ==
  /\ ~started /\ bp_run_ret = 0
  /\ bp.stopping /\ bp.segs = << >>
  /\ drs.pbrake # 0 /\ drs.override_steer = 0
  /\ ticks >= 2

\* Simulation time has not advanced at this tick since the tick before.
TimeStill == drs'.sim_time <= bp.last_t

\* C25: a bp_run tick in which simulation time has not advanced
\* (cur_t <= last_t) changes no operation state: no segment is removed, no
\* steering and no force is commanded, and last_pos, last_hdg, last_spd,
\* last_t and d_t are as they were; so every tick that does control uses a
\* d_t above 0.
C25_StillTickChangesNothing ==
  [][ticks' # ticks =>
       /\ TimeStill =>
            /\ bp'.segs = bp.segs
            /\ drs'.tire_steer_cmd = drs.tire_steer_cmd
            /\ drs'.override_steer = drs.override_steer
            /\ drs'.axial_force = 0 /\ drs'.rot_force_N = 0
            /\ bp'.last_force = bp.last_force
            /\ bp'.last_pos = bp.last_pos /\ bp'.last_hdg = bp.last_hdg
            /\ bp'.last_spd = bp.last_spd /\ bp'.last_t = bp.last_t
            /\ bp'.d_t = bp.d_t
            /\ bp'.stopping = bp.stopping /\ bp'.stopped = bp.stopped
            /\ started' = started /\ spoken' = spoken
       /\ ~TimeStill => bp'.d_t > 0 /\ bp'.last_t = drs'.sim_time]_vars

\* A tick without time advance with segments to drive: the aircraft has
\* moved since the tick before, and bp_run has done nothing about it.
C25_StillTickDone ==
  /\ ticks >= 2 /\ bp_run_ret = 1 /\ started
  /\ bp.segs # << >>
  /\ bp.cur_t = bp.last_t
  /\ bp.cur_pos # bp.last_pos /\ bp.cur_spd # bp.last_spd

\* At this tick a brake pedal is above the threshold or the parking brake
\* is set.
BrakesOn ==
  \/ drs'.lbrake > BRAKE_PEDAL_THRESH
  \/ drs'.rbrake > BRAKE_PEDAL_THRESH
  \/ drs'.pbrake # 0

\* C26: in a bp_run tick where a brake pedal is above the threshold or the
\* parking brake is set while segments remain, no segment is removed, no
\* steering and no push force is commanded (no slow-down to speed 0
\* either), and the operation stays started with its segment list intact.
C26_BrakesHoldEverything ==
  [][(ticks' # ticks /\ bp.segs # << >> /\ BrakesOn) =>
       /\ bp'.segs = bp.segs
       /\ drs'.tire_steer_cmd = drs.tire_steer_cmd
       /\ drs'.axial_force = 0 /\ drs'.rot_force_N = 0
       /\ bp'.last_force = bp.last_force
       /\ bp'.stopping = bp.stopping /\ bp'.stopped = bp.stopped
       /\ started' /\ bp_run_ret' # 0]_vars

\* The aircraft was being pushed along its segments, past the end of the
\* head, when a tick found the parking brake set: the head is still there
\* and no force is applied.
C26_BrakedWhilePushing ==
  /\ ticks >= 2 /\ started /\ bp_run_ret = -1
  /\ drs.pbrake # 0
  /\ bp.segs # << >> /\ bp.segs[1].type = SEG_TYPE_STRAIGHT
  /\ vect2_abs(vect2_sub(bp.cur_pos, bp.segs[1].start_pos)) >= bp.segs[1].len
  /\ bp.last_force # 0 /\ drs.axial_force = 0
  /\ bp.last_t = bp.cur_t

\* C27: once bp_run has set bp.stopped it stays set across bp_stop, the
\* disconnect and a later bp_start, until bp_fini followed by bp_init; it is
\* bp_run that sets it, and with it set no tick issues the "operation
\* complete" notification again, however many operations are run.
C27_StoppedUntilReinit ==
  [][/\ (bp.stopped /\ ~bp'.stopped) => (bp' = BpZero /\ ~started')
     /\ (~bp.stopped /\ bp'.stopped) => ticks' # ticks
     /\ (bp.stopped /\ ticks' # ticks) =>
          spoken' \in { spoken, "Disconnected, have a nice day" }]_vars

\* A first operation was cancelled, announced complete and disconnected in
\* one tick; a second one, placed and started after it, has run its list
\* empty and come to a stop in the next tick, and nothing was announced.
C27_SecondOperationSilent ==
  /\ ticks = 2 /\ started
  /\ bp.stopped /\ bp.stopping /\ bp.segs = << >>
  /\ Abs(bp.cur_spd) < SPEED_COMPLETE_THRESH
  /\ spoken = "Disconnected, have a nice day"

=============================================================================
